---- MODULE Spec2Model ----
(***************************************************************************)
(* Model of the map-to-geojson backend: the magic-wand selection engine    *)
(* (backend/magic_wand.py, backend/routers/magic_wand.py), the zone        *)
(* assigner and the coordinate transformer                                  *)
(* (backend/services/georeference.py).                                      *)
(*                                                                          *)
(* Spec      one magic-wand selection call, step by step                    *)
(* SpecZone  assign_zone_ids over lists of polygons                         *)
(* SpecGeo   transform_coordinates over feature lists                       *)
(* SpecOverlap, SpecVec, SpecExtract, SpecMorph                             *)
(*           check_overlap, the vectorizers, process_image, refine_mask     *)
(* SpecApi   one request to /api/process or /api/magic-wand                 *)
(* SpecFill  the boundary-mode fill, with fairness of its steps             *)
(* SpecOrder the boundary-mode fill with the order of the work left open    *)
(***************************************************************************)
EXTENDS Integers, Sequences, FiniteSets, TLC

VARIABLES
    \* ---- magic-wand selection ----
    image,               \* [w, h, px]: px maps <<x, y>> to a BGR triple
    seed_x, seed_y,      \* click point
    use_boundary_mode,   \* mode flag of magic_wand_select
    boundary_color,      \* RGB triple
    boundary_tolerance,
    tolerance,           \* tolerance mode only
    pc,                  \* position of the call
    allocated,           \* a mask array has been created
    boundary_mask,       \* pixels with boundary_mask[y, x] = True
    result_mask,         \* pixels with result_mask[y, x] = 255
    visited,             \* pixels with visited[y, x] = True
    queue,               \* deque of <<x, y>>
    min_x, max_x, min_y, max_y,
    ret,                 \* value returned by magic_wand_select
    exception,           \* exception raised by magic_wand_select
    response,            \* answer of the /api/magic-wand endpoint
    \* ---- assign_zone_ids ----
    polygons,            \* the list passed to assign_zone_ids
    polygon_data,        \* polygon_data after the sort
    features,            \* the list assign_zone_ids returned
    rerun,               \* a second call: its kind, input and result
    zpc,
    \* ---- transform_coordinates ----
    geo_features,        \* the feature list passed in
    img_width, img_height,
    control_points,      \* list of GeoreferencePoint; <<>> is None or []
    bounding_box,        \* <<>> is None, <<b>> is the BoundingBox b
    geo_result,          \* the feature list returned
    geo_response,        \* answer of the /api/process endpoint
    gpc,
    \* ---- check_overlap ----
    new_polygon,         \* the candidate ring
    existing_polygons,   \* list of GeoJSON polygon coordinates; <<>> is None or []
    overlap_ret,         \* what check_overlap returned, or that it raised
    overlap_response,    \* answer of the /api/magic-wand endpoint
    opc,
    \* ---- contour_to_polygon, mask_to_polygon ----
    batch_contour,       \* the contour passed to contour_to_polygon
    batch_result,        \* <<>> is None, <<p>> is the polygon p
    wand_contours,       \* what cv2.findContours found in the mask
    wand_result,         \* <<>> is None, <<r>> is the dict r
    vpc,                 \* the calls made so far
    \* ---- process_image up to extract_region_contours ----
    original_width, original_height,
    crop,                \* <<>> is None, <<c>> is the CropArea c
    settings,            \* ExtractionSettings: min_area_percent, smooth_contours
    traced,              \* what cv2.findContours found for one label
    img_area,
    contour_index,       \* position of the for loop over the contours
    simplified_calls,    \* indices of the contours given to cv2.approxPolyDP
    valid_contours,
    valid_from,          \* index in traced of each entry of valid_contours
    extract_status,      \* 500 when the request ended in an exception
    epc,
    \* ---- refine_mask and the cleanup of extract_region_contours ----
    mask,                \* the caller's array: width, height, pixels that are 255
    mask_before,         \* its contents before any call
    morph_kernel_size,
    fill_holes,
    refined,             \* what refine_mask returned
    cleaned,             \* the mask of extract_region_contours after line 72
    mpc,                 \* the calls made so far
    \* ---- /api/process: the loop over the labels ----
    regions,             \* per label of np.unique(labels): what findContours traced
    relabel,             \* the same regions under other label ids
    label_index,         \* position of the for loop over the labels
    all_polygons,
    batch_response,      \* answer of the /api/process endpoint
    renamed_response,    \* its answer for the relabelled segmentation
    bpc,
    \* ---- /api/magic-wand: the whole handler ----
    w_request,           \* MagicWandRequest
    w_env,               \* which OCR engines are available
    w_selection,         \* mask, bbox returned by magic_wand_select
    w_refined,           \* refined_mask
    w_result,            \* <<>> is None, <<r>> is the dict of mask_to_polygon
    w_ocr,               \* ocr_text, ocr_confidence
    w_log,               \* the stages, availability checks and engine calls so far
    w_response,
    wpc,
    \* ---- the fill with the order of the work left open ----
    hands                \* per worker: the pixel it took and the neighbours left

fillVars == <<image, seed_x, seed_y, use_boundary_mode, boundary_color,
              boundary_tolerance, tolerance, pc, allocated, boundary_mask,
              result_mask, visited, queue, min_x, max_x, min_y, max_y,
              ret, exception, response>>

zoneVars == <<polygons, polygon_data, features, rerun, zpc>>

geoVars == <<geo_features, img_width, img_height, control_points, bounding_box,
             geo_result, geo_response, gpc>>

overlapVars == <<new_polygon, existing_polygons, overlap_ret, overlap_response, opc>>

vecVars == <<batch_contour, batch_result, wand_contours, wand_result, vpc>>

extractVars == <<original_width, original_height, crop, settings, traced, img_area,
                 contour_index, simplified_calls, valid_contours, valid_from,
                 extract_status, epc>>

morphVars == <<mask, mask_before, morph_kernel_size, fill_holes, refined, cleaned, mpc>>

batchVars == <<regions, relabel, label_index, all_polygons, batch_response,
               renamed_response, bpc>>

wandVars == <<w_request, w_env, w_selection, w_refined, w_result, w_ocr, w_log,
              w_response, wpc>>

orderVars == <<hands>>

endVars == <<batchVars, wandVars, orderVars>>

laterVars == <<overlapVars, vecVars, extractVars, morphVars, endVars>>

vars == <<fillVars, zoneVars, geoVars, laterVars>>

(***************************************************************************)
(* Bounds and inputs                                                        *)
(***************************************************************************)
MaxPixels == 8

Dims == {d \in (1..MaxPixels) \X (1..MaxPixels) : d[1] * d[2] <= MaxPixels}

Pos(w, h) == (0..(w - 1)) \X (0..(h - 1))

Gray == <<152, 152, 152>>
White == <<255, 255, 255>>

\* BGR colours on either side of the boundary threshold for Gray and the
\* default tolerance 15 (3 * 15^2 = 675): the squared distances to Gray are
\* 19^2 + 13^2 + 12^2 = 674 and 26^2 = 676
JustInside == <<171, 165, 164>>
JustOutside == <<178, 152, 152>>

Palette == {JustInside, JustOutside}

DefaultBoundaryTolerance == 15
DefaultTolerance == 32

\* tolerance-mode tolerances: the channels of the two palette colours differ by
\* 7, 13 and 12, so 13 joins them and 12 separates them
Tolerances == {12, 13}

\* the 10x10 gray image with a white 4x4 block at (2,2)-(5,5)
ExampleBlock == (2..5) \X (2..5)
ExampleImage ==
    [w |-> 10, h |-> 10,
     px |-> [p \in Pos(10, 10) |-> IF p \in ExampleBlock THEN White ELSE Gray]]

(***************************************************************************)
(* Helpers                                                                  *)
(***************************************************************************)
Min2(a, b) == IF a <= b THEN a ELSE b
Max2(a, b) == IF a >= b THEN a ELSE b

SetMin(S) == CHOOSE m \in S : \A k \in S : m <= k
SetMax(S) == CHOOSE m \in S : \A k \in S : m >= k

Sq(a) == a * a

ZeroBBox == [x |-> 0, y |-> 0, width |-> 0, height |-> 0, error |-> "none"]

\* the dict key "error" is absent from a bbox unless it is "selection_too_large";
\* the record field error = "none" stands for the absent key
NoReturn == [mask |-> {}, bbox |-> ZeroBBox]
NoGeoResponse ==
    [status |-> 0, features |-> <<>>, georeferenced |-> FALSE, coordinate_system |-> "none"]

NoResponse == [status |-> 0, success |-> FALSE, error |-> "none"]

InBounds(img, x, y) == 0 <= x /\ x < img.w /\ 0 <= y /\ y < img.h

\* boundary_bgr, image_float, diff and boundary_mask of magic_wand_select_boundary:
\* sqrt(sum((px - bgr)^2)) <= tol * sqrt(3), compared on the integer squares.
\* How the float32 square root rounds matters only for a pixel at exactly the
\* threshold distance; the images of the model hold no such pixel.
BoundaryBGR(rgb) == <<rgb[3], rgb[2], rgb[1]>>

SqDiff(c, d) == Sq(c[1] - d[1]) + Sq(c[2] - d[2]) + Sq(c[3] - d[3])

\* variant: the tolerance is not scaled by sqrt(3)
BoundaryMask_Unscaled(img, rgb, tol) ==
    {p \in Pos(img.w, img.h) : SqDiff(img.px[p], BoundaryBGR(rgb)) <= Sq(tol)}

BoundaryMask(img, rgb, tol) ==
    {p \in Pos(img.w, img.h) : SqDiff(img.px[p], BoundaryBGR(rgb)) <= 3 * Sq(tol)}

(***************************************************************************)
(* magic_wand_select_boundary                                               *)
(***************************************************************************)
\* variant: the neighbour below is not examined
NeighbourOffsets_NoDown == <<<<-1, 0>>, <<1, 0>>, <<0, -1>>>>

NeighbourOffsets == <<<<-1, 0>>, <<1, 0>>, <<0, -1>>, <<0, 1>>>>

\* the for-loop over the 4 neighbours of <<x, y>>, from offset i on
RECURSIVE ScanNeighbours(_, _, _, _, _)
ScanNeighbours(i, x, y, vis, q) ==
    IF i > Len(NeighbourOffsets) THEN [visited |-> vis, queue |-> q]
    ELSE LET nx == x + NeighbourOffsets[i][1]
             ny == y + NeighbourOffsets[i][2]
         IN  IF ~InBounds(image, nx, ny)
                 THEN ScanNeighbours(i + 1, x, y, vis, q)
             ELSE IF <<nx, ny>> \in vis
                 THEN ScanNeighbours(i + 1, x, y, vis, q)
             ELSE IF <<nx, ny>> \in boundary_mask
                 THEN ScanNeighbours(i + 1, x, y, vis \cup {<<nx, ny>>}, q)
             ELSE ScanNeighbours(i + 1, x, y, vis \cup {<<nx, ny>>},
                                 Append(q, <<nx, ny>>))

\* variant: rejects at 80% already
TooLarge_AtLeast(selected_pixels, total_pixels) == 5 * selected_pixels >= 4 * total_pixels

\* selection_ratio > 0.8 with selection_ratio = selected_pixels / total_pixels
TooLarge(selected_pixels, total_pixels) == 5 * selected_pixels > 4 * total_pixels

\* variant: exclusive width and height
FinalBBox_Exclusive(mnx, mxx, mny, mxy) ==
    [x |-> mnx, y |-> mny, width |-> mxx - mnx, height |-> mxy - mny,
     error |-> "none"]

FinalBBox(mnx, mxx, mny, mxy) ==
    [x |-> mnx, y |-> mny, width |-> mxx - mnx + 1, height |-> mxy - mny + 1,
     error |-> "none"]

SelectBoundary_OutOfBounds ==
    /\ pc = "call"
    /\ use_boundary_mode
    /\ ~InBounds(image, seed_x, seed_y)
    /\ pc' = "raised"
    /\ exception' = "ValueError"
    /\ UNCHANGED <<image, seed_x, seed_y, use_boundary_mode, boundary_color,
                   boundary_tolerance, tolerance, allocated, boundary_mask,
                   result_mask, visited, queue, min_x, max_x, min_y, max_y,
                   ret, response>>
    /\ UNCHANGED <<zoneVars, geoVars, laterVars>>

\* variant: the seed-on-boundary test is missing and the fill starts anyway
SelectBoundary_SeedOnBoundary_Fills ==
    /\ pc = "call"
    /\ use_boundary_mode
    /\ InBounds(image, seed_x, seed_y)
    /\ LET bm == BoundaryMask(image, boundary_color, boundary_tolerance)
       IN  /\ <<seed_x, seed_y>> \in bm
           /\ boundary_mask' = bm
    /\ allocated' = TRUE
    /\ result_mask' = {}
    /\ visited' = {<<seed_x, seed_y>>}
    /\ queue' = <<<<seed_x, seed_y>>>>
    /\ min_x' = seed_x /\ max_x' = seed_x
    /\ min_y' = seed_y /\ max_y' = seed_y
    /\ pc' = "fill"
    /\ UNCHANGED <<image, seed_x, seed_y, use_boundary_mode, boundary_color,
                   boundary_tolerance, tolerance, ret, exception, response>>
    /\ UNCHANGED <<zoneVars, geoVars, laterVars>>

SelectBoundary_SeedOnBoundary ==
    /\ pc = "call"
    /\ use_boundary_mode
    /\ InBounds(image, seed_x, seed_y)
    /\ LET bm == BoundaryMask(image, boundary_color, boundary_tolerance)
       IN  /\ <<seed_x, seed_y>> \in bm
           /\ boundary_mask' = bm
    /\ allocated' = TRUE
    /\ result_mask' = {}
    /\ ret' = [mask |-> {}, bbox |-> ZeroBBox]
    /\ pc' = "returned"
    /\ UNCHANGED <<image, seed_x, seed_y, use_boundary_mode, boundary_color,
                   boundary_tolerance, tolerance, visited, queue,
                   min_x, max_x, min_y, max_y, exception, response>>
    /\ UNCHANGED <<zoneVars, geoVars, laterVars>>

SelectBoundary_StartFill ==
    /\ pc = "call"
    /\ use_boundary_mode
    /\ InBounds(image, seed_x, seed_y)
    /\ LET bm == BoundaryMask(image, boundary_color, boundary_tolerance)
       IN  /\ <<seed_x, seed_y>> \notin bm
           /\ boundary_mask' = bm
    /\ allocated' = TRUE
    /\ result_mask' = {}
    /\ visited' = {<<seed_x, seed_y>>}
    /\ queue' = <<<<seed_x, seed_y>>>>
    /\ min_x' = seed_x /\ max_x' = seed_x
    /\ min_y' = seed_y /\ max_y' = seed_y
    /\ pc' = "fill"
    /\ UNCHANGED <<image, seed_x, seed_y, use_boundary_mode, boundary_color,
                   boundary_tolerance, tolerance, ret, exception, response>>
    /\ UNCHANGED <<zoneVars, geoVars, laterVars>>

\* variant: the pixel is read from the queue and left in it
FillStep_NoPop ==
    /\ pc = "fill"
    /\ queue # <<>>
    /\ LET x == Head(queue)[1]
           y == Head(queue)[2]
           scan == ScanNeighbours(1, x, y, visited, queue)
       IN  /\ result_mask' = result_mask \cup {<<x, y>>}
           /\ min_x' = Min2(min_x, x)
           /\ max_x' = Max2(max_x, x)
           /\ min_y' = Min2(min_y, y)
           /\ max_y' = Max2(max_y, y)
           /\ visited' = scan.visited
           /\ queue' = scan.queue
    /\ UNCHANGED <<image, seed_x, seed_y, use_boundary_mode, boundary_color,
                   boundary_tolerance, tolerance, pc, allocated, boundary_mask,
                   ret, exception, response>>
    /\ UNCHANGED <<zoneVars, geoVars, laterVars>>

\* one iteration of "while queue"
FillStep ==
    /\ pc = "fill"
    /\ queue # <<>>
    /\ LET x == Head(queue)[1]
           y == Head(queue)[2]
           scan == ScanNeighbours(1, x, y, visited, Tail(queue))
       IN  /\ result_mask' = result_mask \cup {<<x, y>>}
           /\ min_x' = Min2(min_x, x)
           /\ max_x' = Max2(max_x, x)
           /\ min_y' = Min2(min_y, y)
           /\ max_y' = Max2(max_y, y)
           /\ visited' = scan.visited
           /\ queue' = scan.queue
    /\ UNCHANGED <<image, seed_x, seed_y, use_boundary_mode, boundary_color,
                   boundary_tolerance, tolerance, pc, allocated, boundary_mask,
                   ret, exception, response>>
    /\ UNCHANGED <<zoneVars, geoVars, laterVars>>

SelectBoundary_TooLarge ==
    /\ pc = "fill"
    /\ queue = <<>>
    /\ TooLarge(Cardinality(result_mask), image.h * image.w)
    /\ ret' = [mask |-> {},
               bbox |-> [x |-> 0, y |-> 0, width |-> 0, height |-> 0,
                         error |-> "selection_too_large"]]
    /\ pc' = "returned"
    /\ UNCHANGED <<image, seed_x, seed_y, use_boundary_mode, boundary_color,
                   boundary_tolerance, tolerance, allocated, boundary_mask,
                   result_mask, visited, queue, min_x, max_x, min_y, max_y,
                   exception, response>>
    /\ UNCHANGED <<zoneVars, geoVars, laterVars>>

SelectBoundary_Return ==
    /\ pc = "fill"
    /\ queue = <<>>
    /\ ~TooLarge(Cardinality(result_mask), image.h * image.w)
    /\ ret' = [mask |-> result_mask, bbox |-> FinalBBox(min_x, max_x, min_y, max_y)]
    /\ pc' = "returned"
    /\ UNCHANGED <<image, seed_x, seed_y, use_boundary_mode, boundary_color,
                   boundary_tolerance, tolerance, allocated, boundary_mask,
                   result_mask, visited, queue, min_x, max_x, min_y, max_y,
                   exception, response>>
    /\ UNCHANGED <<zoneVars, geoVars, laterVars>>

(***************************************************************************)
(* magic_wand_select_tolerance                                              *)
(***************************************************************************)
Neighbours4(q) ==
    {<<q[1] - 1, q[2]>>, <<q[1] + 1, q[2]>>, <<q[1], q[2] - 1>>, <<q[1], q[2] + 1>>}

\* the pixels of Allowed joined to S by 4-connected paths inside Allowed
RECURSIVE Grow(_, _)
Grow(S, Allowed) ==
    LET T == S \cup {p \in UNION {Neighbours4(q) : q \in S} : p \in Allowed}
    IN  IF T = S THEN S ELSE Grow(T, Allowed)

\* cv2.floodFill with FLOODFILL_FIXED_RANGE and loDiff = upDiff = tol: a pixel
\* belongs when every channel is within tol of the seed pixel's channel
InFixedRange(c, s, tol) ==
    \A k \in 1..3 : s[k] - tol <= c[k] /\ c[k] <= s[k] + tol

FloodFillFixedRange(img, sx, sy, tol) ==
    Grow({<<sx, sy>>},
         {p \in Pos(img.w, img.h) : InFixedRange(img.px[p], img.px[<<sx, sy>>], tol)})

\* np.where(result_mask > 0) and the min/max of its rows and columns
MaskBBox(m) ==
    IF m = {} THEN ZeroBBox
    ELSE LET xs == {p[1] : p \in m}
             ys == {p[2] : p \in m}
         IN  [x |-> SetMin(xs), y |-> SetMin(ys),
              width |-> SetMax(xs) - SetMin(xs) + 1,
              height |-> SetMax(ys) - SetMin(ys) + 1,
              error |-> "none"]

SelectTolerance_OutOfBounds ==
    /\ pc = "call"
    /\ ~use_boundary_mode
    /\ ~InBounds(image, seed_x, seed_y)
    /\ pc' = "raised"
    /\ exception' = "ValueError"
    /\ UNCHANGED <<image, seed_x, seed_y, use_boundary_mode, boundary_color,
                   boundary_tolerance, tolerance, allocated, boundary_mask,
                   result_mask, visited, queue, min_x, max_x, min_y, max_y,
                   ret, response>>
    /\ UNCHANGED <<zoneVars, geoVars, laterVars>>

\* variant: a selection of more than 80% of the image is rejected as in
\* boundary mode
SelectTolerance_Fill_Rejecting ==
    /\ pc = "call"
    /\ ~use_boundary_mode
    /\ InBounds(image, seed_x, seed_y)
    /\ allocated' = TRUE
    /\ LET m == FloodFillFixedRange(image, seed_x, seed_y, tolerance)
       IN  /\ result_mask' = m
           /\ ret' = IF TooLarge(Cardinality(m), image.w * image.h)
                         THEN [mask |-> {},
                               bbox |-> [ZeroBBox EXCEPT !.error = "selection_too_large"]]
                         ELSE [mask |-> m, bbox |-> MaskBBox(m)]
    /\ pc' = "returned"
    /\ UNCHANGED <<image, seed_x, seed_y, use_boundary_mode, boundary_color,
                   boundary_tolerance, tolerance, boundary_mask, visited, queue,
                   min_x, max_x, min_y, max_y, exception, response>>
    /\ UNCHANGED <<zoneVars, geoVars, laterVars>>

SelectTolerance_Fill ==
    /\ pc = "call"
    /\ ~use_boundary_mode
    /\ InBounds(image, seed_x, seed_y)
    /\ allocated' = TRUE
    /\ LET m == FloodFillFixedRange(image, seed_x, seed_y, tolerance)
       IN  /\ result_mask' = m
           /\ ret' = [mask |-> m, bbox |-> MaskBBox(m)]
    /\ pc' = "returned"
    /\ UNCHANGED <<image, seed_x, seed_y, use_boundary_mode, boundary_color,
                   boundary_tolerance, tolerance, boundary_mask, visited, queue,
                   min_x, max_x, min_y, max_y, exception, response>>
    /\ UNCHANGED <<zoneVars, geoVars, laterVars>>

(***************************************************************************)
(* /api/magic-wand: what the endpoint answers after magic_wand_select       *)
(***************************************************************************)
\* variant: the ValueError falls through to the generic handler
Respond_ValueError_Generic ==
    /\ pc = "raised"
    /\ exception = "ValueError"
    /\ response' = [status |-> 500, success |-> FALSE, error |-> "out of image bounds"]
    /\ pc' = "responded"
    /\ UNCHANGED <<image, seed_x, seed_y, use_boundary_mode, boundary_color,
                   boundary_tolerance, tolerance, allocated, boundary_mask,
                   result_mask, visited, queue, min_x, max_x, min_y, max_y,
                   ret, exception>>
    /\ UNCHANGED <<zoneVars, geoVars, laterVars>>

\* except ValueError as e: return MagicWandResponse(success=False, error=str(e))
Respond_ValueError ==
    /\ pc = "raised"
    /\ exception = "ValueError"
    /\ response' = [status |-> 200, success |-> FALSE, error |-> "out of image bounds"]
    /\ pc' = "responded"
    /\ UNCHANGED <<image, seed_x, seed_y, use_boundary_mode, boundary_color,
                   boundary_tolerance, tolerance, allocated, boundary_mask,
                   result_mask, visited, queue, min_x, max_x, min_y, max_y,
                   ret, exception>>
    /\ UNCHANGED <<zoneVars, geoVars, laterVars>>

\* if bbox.get("error") == "selection_too_large": return failure
Respond_TooLarge ==
    /\ pc = "returned"
    /\ ret.bbox.error = "selection_too_large"
    /\ response' = [status |-> 200, success |-> FALSE, error |-> "Selection too large"]
    /\ pc' = "responded"
    /\ UNCHANGED <<image, seed_x, seed_y, use_boundary_mode, boundary_color,
                   boundary_tolerance, tolerance, allocated, boundary_mask,
                   result_mask, visited, queue, min_x, max_x, min_y, max_y,
                   ret, exception>>
    /\ UNCHANGED <<zoneVars, geoVars, laterVars>>

(***************************************************************************)
(* Spec: one magic-wand selection                                           *)
(***************************************************************************)
InitCall ==
    /\ pc = "call"
    /\ allocated = FALSE
    /\ boundary_mask = {}
    /\ result_mask = {}
    /\ visited = {}
    /\ queue = <<>>
    /\ min_x = 0 /\ max_x = 0 /\ min_y = 0 /\ max_y = 0
    /\ ret = NoReturn
    /\ exception = "none"
    /\ response = NoResponse

InitSmallImages ==
    /\ \E d \in Dims : \E px \in [Pos(d[1], d[2]) -> Palette] :
           image = [w |-> d[1], h |-> d[2], px |-> px]
    /\ seed_x \in -1..image.w
    /\ seed_y \in -1..image.h
    /\ boundary_color = Gray
    /\ use_boundary_mode \in BOOLEAN
    /\ boundary_tolerance = DefaultBoundaryTolerance
    /\ IF use_boundary_mode THEN tolerance = DefaultTolerance
                            ELSE tolerance \in Tolerances

InitExample ==
    /\ image = ExampleImage
    /\ seed_x \in {0, 3}
    /\ seed_y = seed_x
    /\ boundary_color = Gray
    /\ use_boundary_mode = TRUE
    /\ boundary_tolerance = DefaultBoundaryTolerance
    /\ tolerance = DefaultTolerance

IdleZone ==
    /\ polygons = <<>>
    /\ polygon_data = <<>>
    /\ features = <<>>
    /\ rerun = [kind |-> "none", input |-> <<>>, features |-> <<>>]
    /\ zpc = "idle"

IdleGeo ==
    /\ geo_features = <<>>
    /\ img_width = 1 /\ img_height = 1
    /\ control_points = <<>>
    /\ bounding_box = <<>>
    /\ geo_result = <<>>
    /\ geo_response = NoGeoResponse
    /\ gpc = "idle"

NoOverlapReturn == [value |-> FALSE, raised |-> FALSE]

IdleOverlap ==
    /\ new_polygon = <<>>
    /\ existing_polygons = <<>>
    /\ overlap_ret = NoOverlapReturn
    /\ overlap_response = NoResponse
    /\ opc = "idle"

IdleVec ==
    /\ batch_contour = <<>>
    /\ batch_result = <<>>
    /\ wand_contours = <<>>
    /\ wand_result = <<>>
    /\ vpc = {"idle"}

IdleExtract ==
    /\ original_width = 1 /\ original_height = 1
    /\ crop = <<>>
    /\ settings = [min_area_percent |-> <<1, 10>>, smooth_contours |-> TRUE]
    /\ traced = <<>>
    /\ img_area = 0
    /\ contour_index = 0
    /\ simplified_calls = {}
    /\ valid_contours = <<>>
    /\ valid_from = <<>>
    /\ extract_status = 0
    /\ epc = "idle"

NoMask == [w |-> 1, h |-> 1, on |-> {}]

IdleMorph ==
    /\ mask = NoMask
    /\ mask_before = NoMask
    /\ morph_kernel_size = 3
    /\ fill_holes = TRUE
    /\ refined = NoMask
    /\ cleaned = NoMask
    /\ mpc = {"idle"}

NoBatchResponse == [status |-> 0, features |-> <<>>]

IdleBatch ==
    /\ regions = <<>>
    /\ relabel = <<>>
    /\ label_index = 0
    /\ all_polygons = <<>>
    /\ batch_response = NoBatchResponse
    /\ renamed_response = NoBatchResponse
    /\ bpc = "idle"

NoWandRequest ==
    [image |-> [w |-> 1, h |-> 1, px |-> [p \in Pos(1, 1) |-> Gray]],
     click_x |-> 0, click_y |-> 0, use_boundary_mode |-> TRUE,
     corners_kept |-> TRUE, ocr_engine |-> "ai", existing_polygons |-> <<>>]

NoOcr == [text |-> "", confidence |-> 0]

NoWandResponse ==
    [status |-> 0, success |-> FALSE, polygon |-> <<>>, centroid |-> <<>>,
     bbox |-> <<>>, ocr_text |-> "", ocr_confidence |-> 0, area |-> <<0, 1>>,
     error |-> "none"]

IdleWand ==
    /\ w_request = NoWandRequest
    /\ w_env = [gemini |-> FALSE, tesseract |-> FALSE]
    /\ w_selection = NoReturn
    /\ w_refined = NoMask
    /\ w_result = <<>>
    /\ w_ocr = NoOcr
    /\ w_log = <<>>
    /\ w_response = NoWandResponse
    /\ wpc = "idle"

Workers == {"a", "b"}

FreeHand == [busy |-> FALSE, pixel |-> <<0, 0>>, todo |-> {}]

IdleOrder == hands = [w \in Workers |-> FreeHand]

IdleEnd ==
    /\ IdleBatch
    /\ IdleWand
    /\ IdleOrder

IdleLater ==
    /\ IdleOverlap
    /\ IdleVec
    /\ IdleExtract
    /\ IdleMorph
    /\ IdleEnd

Init ==
    /\ InitCall
    /\ (InitSmallImages \/ InitExample)
    /\ IdleZone
    /\ IdleGeo
    /\ IdleLater

Next ==
    \/ SelectBoundary_OutOfBounds
    \/ SelectBoundary_SeedOnBoundary
    \/ SelectBoundary_StartFill
    \/ FillStep
    \/ SelectBoundary_TooLarge
    \/ SelectBoundary_Return
    \/ SelectTolerance_OutOfBounds
    \/ SelectTolerance_Fill
    \/ Respond_ValueError
    \/ Respond_TooLarge

Spec == Init /\ [][Next]_vars

(***************************************************************************)
(* Properties of the boundary-mode selection                                *)
(***************************************************************************)
Seed == <<seed_x, seed_y>>

SeedInBounds == seed_x \in 0..(image.w - 1) /\ seed_y \in 0..(image.h - 1)

\* squared colour distance of pixel p to the boundary colour (given as RGB)
ColourDist2(p) ==
    Sq(image.px[p][1] - boundary_color[3]) + Sq(image.px[p][2] - boundary_color[2])
        + Sq(image.px[p][3] - boundary_color[1])

ClassifiedBoundary(p) == ColourDist2(p) <= 3 * boundary_tolerance * boundary_tolerance

NonBoundaryPixels == {p \in Pos(image.w, image.h) : ~ClassifiedBoundary(p)}

Touching(p, q) ==
    (p[1] - q[1]) * (p[1] - q[1]) + (p[2] - q[2]) * (p[2] - q[2]) = 1

\* the pixels of Free reachable from S by 4-connected paths of pixels of Free
RECURSIVE Reach4(_, _)
Reach4(S, Free) ==
    LET N == {p \in Free \ S : \E q \in S : Touching(p, q)}
    IN  IF N = {} THEN S ELSE Reach4(S \cup N, Free)

SeedComponent == Reach4({Seed}, NonBoundaryPixels)

FillCase == use_boundary_mode /\ SeedInBounds /\ ~ClassifiedBoundary(Seed)

\* C1: in boundary mode, for an in-bounds non-boundary seed whose fill is not
\* rejected as too large, the returned mask is exactly the set of non-boundary
\* pixels reachable from the seed by 4-connected paths of non-boundary pixels,
\* and it contains the seed.
C1_MaskIsSeedComponent ==
    (pc = "returned" /\ FillCase /\ ret.bbox.error # "selection_too_large")
        => (ret.mask = SeedComponent /\ Seed \in ret.mask)

\* a fill that went round a boundary pixel and left a non-boundary pixel out
C1_Witness ==
    /\ pc = "returned" /\ FillCase
    /\ Cardinality(ret.mask) >= 3
    /\ ret.mask # NonBoundaryPixels
    /\ \E p \in ret.mask : p[1] # seed_x /\ p[2] # seed_y

C3_TooLargeRejected ==
    (pc \in {"returned", "responded"} /\ FillCase) =>
        IF 5 * Cardinality(result_mask) > 4 * (image.w * image.h)
            THEN /\ ret.mask = {}
                 /\ ret.bbox = [x |-> 0, y |-> 0, width |-> 0, height |-> 0,
                                error |-> "selection_too_large"]
            ELSE /\ ret.bbox.error = "none"
                 /\ ret.mask = result_mask
                 /\ ret.mask # {}

\* rejected although one pixel is a boundary and the seed is not a corner
C3_Witness ==
    /\ pc = "returned" /\ FillCase
    /\ ret.bbox.error = "selection_too_large"
    /\ Cardinality(result_mask) < image.w * image.h
    /\ seed_x > 0

\* C4: when the in-bounds seed pixel is itself a boundary pixel the call
\* returns the empty sentinel without raising and without the
\* selection_too_large tag, and no pixel is visited; a result carrying the tag
\* never comes from a seed on the boundary.
C4_SeedOnBoundaryEmpty ==
    (use_boundary_mode /\ SeedInBounds /\ ClassifiedBoundary(Seed)) =>
        /\ pc \in {"call", "returned"}
        /\ exception = "none"
        /\ visited = {} /\ queue = <<>> /\ result_mask = {}
        /\ ret.mask = {}
        /\ ret.bbox = [x |-> 0, y |-> 0, width |-> 0, height |-> 0, error |-> "none"]

\* a boundary seed in an image that has selectable pixels
C4_Witness ==
    /\ pc = "returned" /\ use_boundary_mode /\ SeedInBounds
    /\ ClassifiedBoundary(Seed)
    /\ NonBoundaryPixels # {}

\* C5: in both modes a seed outside [0, width) x [0, height) fails with the
\* out-of-bounds error before any mask is allocated or any pixel is examined,
\* and the endpoint answers with success = false and an error message, not
\* with HTTP 500; an in-bounds seed never raises.
C5_OutOfBoundsRejected ==
    /\ (pc # "call" /\ ~SeedInBounds) =>
           /\ pc \in {"raised", "responded"}
           /\ exception = "ValueError"
           /\ ~allocated
           /\ boundary_mask = {} /\ visited = {} /\ result_mask = {}
           /\ ret = NoReturn
    /\ (pc = "responded" /\ ~SeedInBounds) =>
           /\ response.status = 200
           /\ response.success = FALSE
           /\ response.error \notin {"none", ""}
    /\ SeedInBounds => exception = "none"

\* a tolerance-mode click just right of the image, answered by the endpoint
C5_Witness ==
    /\ pc = "responded" /\ ~use_boundary_mode
    /\ seed_x = image.w /\ seed_y \in 0..(image.h - 1)
    /\ response.success = FALSE

Cols(m) == {p[1] : p \in m}
Rows(m) == {p[2] : p \in m}

\* C6: a non-empty boundary-mode result carries the tight inclusive bounding
\* box of its mask, inside the image; during the fill the running box is the
\* tight box of the pixels marked so far; the 10x10 example gives the mask
\* (2,2)-(5,5) and the bbox {x: 2, y: 2, width: 4, height: 4}.
C6_BBoxTight ==
    /\ (pc = "returned" /\ use_boundary_mode /\ ret.mask # {}) =>
           /\ \A c \in Cols(ret.mask) : ret.bbox.x <= c
           /\ ret.bbox.x \in Cols(ret.mask)
           /\ \A r \in Rows(ret.mask) : ret.bbox.y <= r
           /\ ret.bbox.y \in Rows(ret.mask)
           /\ \A c \in Cols(ret.mask) : c <= ret.bbox.x + ret.bbox.width - 1
           /\ ret.bbox.x + ret.bbox.width - 1 \in Cols(ret.mask)
           /\ \A r \in Rows(ret.mask) : r <= ret.bbox.y + ret.bbox.height - 1
           /\ ret.bbox.y + ret.bbox.height - 1 \in Rows(ret.mask)
           /\ ret.bbox.x >= 0 /\ ret.bbox.y >= 0
           /\ ret.bbox.x + ret.bbox.width <= image.w
           /\ ret.bbox.y + ret.bbox.height <= image.h
    /\ (pc = "fill" /\ result_mask # {}) =>
           /\ min_x \in Cols(result_mask) /\ \A c \in Cols(result_mask) : min_x <= c
           /\ max_x \in Cols(result_mask) /\ \A c \in Cols(result_mask) : c <= max_x
           /\ min_y \in Rows(result_mask) /\ \A r \in Rows(result_mask) : min_y <= r
           /\ max_y \in Rows(result_mask) /\ \A r \in Rows(result_mask) : r <= max_y
    /\ (pc = "returned" /\ image = ExampleImage /\ seed_x = 3 /\ seed_y = 3) =>
           /\ ret.mask = (2..5) \X (2..5)
           /\ ret.bbox = [x |-> 2, y |-> 2, width |-> 4, height |-> 4,
                          error |-> "none"]

\* the example call has returned
C6_Witness ==
    /\ pc = "returned" /\ image = ExampleImage /\ seed_x = 3 /\ seed_y = 3
    /\ Cardinality(ret.mask) = 16

(***************************************************************************)
(* assign_zone_ids (services/georeference.py)                               *)
(*                                                                          *)
(* A ring is a sequence of <<x, y>>. A float quotient a / b is kept as the  *)
(* fraction <<a, b>> with b > 0 and compared by cross-multiplication.       *)
(***************************************************************************)
MaxPolys == 3
MaxPermuted == 5

Square(cx, cy) ==
    <<<<cx - 1, cy - 1>>, <<cx + 1, cy - 1>>, <<cx + 1, cy + 1>>,
      <<cx - 1, cy + 1>>, <<cx - 1, cy - 1>>>>

\* closed rings; Diamond has the vertex mean of Square(1, 1),
\* Notched has a vertex in the middle of an edge, Sliver has no area; Dot and
\* the empty ring are the degenerate inputs compute_centroid guards against
Diamond == <<<<1, 0>>, <<2, 1>>, <<1, 2>>, <<0, 1>>, <<1, 0>>>>
Notched == <<<<0, 0>>, <<2, 0>>, <<4, 0>>, <<4, 4>>, <<0, 4>>, <<0, 0>>>>
Sliver == <<<<0, 0>>, <<2, 0>>, <<4, 0>>, <<0, 0>>>>
Dot == <<<<2, 2>>>>

Rings == {Square(1, 1), Square(3, 1), Square(1, 3), Diamond, Notched,
          Sliver, Dot, <<>>}

PolygonOf(ring) == [geometry |-> [type |-> "Polygon", coordinates |-> <<ring>>]]

\* the five polygons with centroids (5,20), (5,5), (20,5), (1,1), (30,30)
ExamplePolygons ==
    <<PolygonOf(Square(5, 20)), PolygonOf(Square(5, 5)), PolygonOf(Square(20, 5)),
      PolygonOf(Square(1, 1)), PolygonOf(Square(30, 30))>>

\* eleven polygons in one row, right to left
RowLength == 11
RowPolygons == [i \in 1..RowLength |-> PolygonOf(Square(2 * (RowLength - i) + 1, 1))]

RECURSIVE SumX(_, _)
SumX(ring, k) == IF k = 0 THEN 0 ELSE ring[k][1] + SumX(ring, k - 1)

RECURSIVE SumY(_, _)
SumY(ring, k) == IF k = 0 THEN 0 ELSE ring[k][2] + SumY(ring, k - 1)

\* variant: the closing point is counted too
compute_centroid_WithClosing(coords) ==
    LET ring == IF coords # <<>> /\ coords[1] # <<>> THEN coords[1] ELSE <<>>
        n == Len(ring)
    IN  IF ring = <<>> THEN <<<<0, 1>>, <<0, 1>>>>
        ELSE <<<<SumX(ring, n), n>>, <<SumY(ring, n), n>>>>

\* <<x, y>>, each a fraction
compute_centroid(coords) ==
    LET ring == IF coords # <<>> /\ coords[1] # <<>> THEN coords[1] ELSE <<>>
        n == Len(ring) - 1
    IN  IF ring = <<>> THEN <<<<0, 1>>, <<0, 1>>>>
        ELSE IF n > 0 THEN <<<<SumX(ring, n), n>>, <<SumY(ring, n), n>>>>
        ELSE <<<<0, 1>>, <<0, 1>>>>

FracLess(a, b) == a[1] * b[2] < b[1] * a[2]
FracEq(a, b) == a[1] * b[2] = b[1] * a[2]

\* variant: sorts by (centroid_x, centroid_y)
KeyLess_XFirst(p, q) ==
    \/ FracLess(p.centroid_x, q.centroid_x)
    \/ (FracEq(p.centroid_x, q.centroid_x) /\ FracLess(p.centroid_y, q.centroid_y))

\* (p.centroid_y, p.centroid_x) < (q.centroid_y, q.centroid_x), as tuples compare
KeyLess(p, q) ==
    \/ FracLess(p.centroid_y, q.centroid_y)
    \/ (FracEq(p.centroid_y, q.centroid_y) /\ FracLess(p.centroid_x, q.centroid_x))

\* variant: an entry is put before the entries it ties with
InsertByKey_Unstable(sorted, e) ==
    LET before == {k \in 1..Len(sorted) : KeyLess(sorted[k], e)}
        at == IF before = {} THEN 0 ELSE SetMax(before)
    IN  SubSeq(sorted, 1, at) \o <<e>> \o SubSeq(sorted, at + 1, Len(sorted))

\* e goes behind the last entry that is not greater than e
InsertByKey(sorted, e) ==
    LET before == {k \in 1..Len(sorted) : ~KeyLess(e, sorted[k])}
        at == IF before = {} THEN 0 ELSE SetMax(before)
    IN  SubSeq(sorted, 1, at) \o <<e>> \o SubSeq(sorted, at + 1, Len(sorted))

\* list.sort(key=...): a stable sort
RECURSIVE SortByKey(_)
SortByKey(data) ==
    IF data = <<>> THEN <<>>
    ELSE InsertByKey(SortByKey(SubSeq(data, 1, Len(data) - 1)), data[Len(data)])

DigitChars == <<"0", "1", "2", "3", "4", "5", "6", "7", "8", "9">>

RECURSIVE Decimal(_)
Decimal(i) ==
    IF i < 10 THEN <<DigitChars[i + 1]>>
    ELSE Append(Decimal(i \div 10), DigitChars[(i % 10) + 1])

RECURSIVE PadLeft(_, _)
PadLeft(digits, width) ==
    IF Len(digits) >= width THEN digits ELSE PadLeft(<<"0">> \o digits, width)

\* f"ZONE_{i:04d}": the prefix, then one entry per digit
ZoneIdFormat(i) == <<"ZONE_">> \o PadLeft(Decimal(i), 4)

PolygonData(polys) ==
    [k \in 1..Len(polys) |->
        LET centroid == compute_centroid(polys[k].geometry.coordinates)
        IN  [polygon |-> polys[k], centroid_x |-> centroid[1],
             centroid_y |-> centroid[2]]]

FeaturesOf(data) ==
    [i \in 1..Len(data) |->
        [type |-> "Feature",
         properties |-> [zone_id |-> ZoneIdFormat(i)],
         geometry |-> data[i].polygon.geometry]]

assign_zone_ids(polys) == FeaturesOf(SortByKey(PolygonData(polys)))

AssignZoneIds ==
    /\ zpc = "input"
    /\ polygon_data' = SortByKey(PolygonData(polygons))
    /\ features' = assign_zone_ids(polygons)
    /\ zpc' = "assigned"
    /\ UNCHANGED <<polygons, rerun>>
    /\ UNCHANGED <<fillVars, geoVars, laterVars>>

\* assign_zone_ids applied to the list it returned
AssignAgain ==
    /\ zpc = "assigned"
    /\ rerun' = [kind |-> "again", input |-> features,
                 features |-> assign_zone_ids(features)]
    /\ zpc' = "rerun"
    /\ UNCHANGED <<polygons, polygon_data, features>>
    /\ UNCHANGED <<fillVars, geoVars, laterVars>>

\* assign_zone_ids applied to the same polygons in another order
AssignPermuted ==
    /\ zpc = "assigned"
    /\ Len(polygons) <= MaxPermuted
    /\ \E perm \in Permutations(1..Len(polygons)) :
           LET input == [k \in 1..Len(polygons) |-> polygons[perm[k]]]
           IN  rerun' = [kind |-> "permuted", input |-> input,
                         features |-> assign_zone_ids(input)]
    /\ zpc' = "rerun"
    /\ UNCHANGED <<polygons, polygon_data, features>>
    /\ UNCHANGED <<fillVars, geoVars, laterVars>>

IdleFill ==
    /\ image = [w |-> 1, h |-> 1, px |-> [p \in Pos(1, 1) |-> Gray]]
    /\ seed_x = 0 /\ seed_y = 0
    /\ use_boundary_mode = TRUE
    /\ boundary_color = Gray
    /\ boundary_tolerance = DefaultBoundaryTolerance
    /\ tolerance = DefaultTolerance
    /\ pc = "idle"
    /\ allocated = FALSE
    /\ boundary_mask = {} /\ result_mask = {} /\ visited = {}
    /\ queue = <<>>
    /\ min_x = 0 /\ max_x = 0 /\ min_y = 0 /\ max_y = 0
    /\ ret = NoReturn
    /\ exception = "none"
    /\ response = NoResponse

RECURSIVE ListsUpTo(_, _)
ListsUpTo(S, n) ==
    IF n = 0 THEN {<<>>}
    ELSE LET shorter == ListsUpTo(S, n - 1)
         IN  shorter \cup {Append(l, e) : l \in {m \in shorter : Len(m) = n - 1}, e \in S}

InitZone ==
    /\ IdleFill
    /\ IdleGeo
    /\ IdleLater
    /\ polygons \in ListsUpTo({PolygonOf(r) : r \in Rings}, MaxPolys)
                    \cup {ExamplePolygons, RowPolygons}
    /\ polygon_data = <<>>
    /\ features = <<>>
    /\ rerun = [kind |-> "none", input |-> <<>>, features |-> <<>>]
    /\ zpc = "input"

NextZone ==
    \/ AssignZoneIds
    \/ AssignAgain
    \/ AssignPermuted

SpecZone == InitZone /\ [][NextZone]_vars

(***************************************************************************)
(* Properties of assign_zone_ids                                            *)
(***************************************************************************)
Assigned == zpc \in {"assigned", "rerun"}

RingOf(poly) == poly.geometry.coordinates[1]

IsClosedRing(ring) == Len(ring) >= 2 /\ ring[1] = ring[Len(ring)]

\* (cy, cx) of a before or equal to (cy, cx) of b
KeyNotAfter(a, b) ==
    \/ a.centroid_y[1] * b.centroid_y[2] < b.centroid_y[1] * a.centroid_y[2]
    \/ /\ a.centroid_y[1] * b.centroid_y[2] = b.centroid_y[1] * a.centroid_y[2]
       /\ a.centroid_x[1] * b.centroid_x[2] <= b.centroid_x[1] * a.centroid_x[2]

DigitValue(c) == CHOOSE d \in 0..9 : DigitChars[d + 1] = c

RECURSIVE DigitsValue(_)
DigitsValue(ds) ==
    IF ds = <<>> THEN 0
    ELSE 10 * DigitsValue(SubSeq(ds, 1, Len(ds) - 1)) + DigitValue(ds[Len(ds)])

Occurrences(seq, g) == Cardinality({k \in 1..Len(seq) : seq[k].geometry = g})

\* C7: the output lists the N input geometries, each exactly once, ordered by
\* (centroid_y, centroid_x) ascending, and the i-th feature has zone_id "ZONE_"
\* followed by i zero-padded to 4 digits; the five example polygons come out as
\* (1,1), (5,5), (20,5), (5,20), (30,30) with ZONE_0001 .. ZONE_0005.
C7_SortedAndNumbered ==
    Assigned =>
        /\ Len(features) = Len(polygons)
        /\ \A k \in 1..Len(polygons) :
               Occurrences(features, polygons[k].geometry)
                   = Occurrences(polygons, polygons[k].geometry)
        /\ \A i \in 1..Len(features) :
               /\ features[i].geometry = polygon_data[i].polygon.geometry
               /\ \A j \in (i + 1)..Len(features) :
                      KeyNotAfter(polygon_data[i], polygon_data[j])
               /\ LET zid == features[i].properties.zone_id
                  IN  /\ Len(zid) = 5
                      /\ zid[1] = "ZONE_"
                      /\ \A k \in 2..5 : \E d \in 1..10 : zid[k] = DigitChars[d]
                      /\ DigitsValue(SubSeq(zid, 2, 5)) = i
               /\ \A j \in 1..Len(features) :
                      features[i].properties.zone_id = features[j].properties.zone_id
                          => i = j
        /\ polygons = ExamplePolygons =>
               /\ [i \in 1..5 |-> RingOf(features[i])] =
                      <<Square(1, 1), Square(5, 5), Square(20, 5), Square(5, 20),
                        Square(30, 30)>>
               /\ [i \in 1..5 |-> features[i].properties.zone_id] =
                      <<<<"ZONE_", "0", "0", "0", "1">>, <<"ZONE_", "0", "0", "0", "2">>,
                        <<"ZONE_", "0", "0", "0", "3">>, <<"ZONE_", "0", "0", "0", "4">>,
                        <<"ZONE_", "0", "0", "0", "5">>>>

\* the example list has been numbered
C7_Witness ==
    /\ zpc = "assigned"
    /\ polygons = ExamplePolygons
    /\ RingOf(features[4]) = Square(5, 20)

RECURSIVE CoordSum(_, _, _)
CoordSum(ring, axis, k) ==
    IF k = 0 THEN 0 ELSE CoordSum(ring, axis, k - 1) + ring[k][axis]

\* twice the signed area contributed by the edge from vertex k to vertex k + 1
EdgeCross(ring, k) == ring[k][1] * ring[k + 1][2] - ring[k + 1][1] * ring[k][2]

RECURSIVE CrossSum(_, _)
CrossSum(ring, k) == IF k = 0 THEN 0 ELSE CrossSum(ring, k - 1) + EdgeCross(ring, k)

RECURSIVE MomentSum(_, _, _)
MomentSum(ring, axis, k) ==
    IF k = 0 THEN 0
    ELSE MomentSum(ring, axis, k - 1)
             + (ring[k][axis] + ring[k + 1][axis]) * EdgeCross(ring, k)

\* first-moment centroid of a closed ring, the bounding-box centre when the
\* signed area is zero; each coordinate a fraction
MomentCentroid(ring) ==
    LET m == Len(ring) - 1
        twiceArea == CrossSum(ring, m)
        xs == {ring[k][1] : k \in 1..Len(ring)}
        ys == {ring[k][2] : k \in 1..Len(ring)}
    IN  IF twiceArea # 0
            THEN <<<<MomentSum(ring, 1, m), 3 * twiceArea>>,
                   <<MomentSum(ring, 2, m), 3 * twiceArea>>>>
            ELSE <<<<SetMin(xs) + SetMax(xs), 2>>, <<SetMin(ys) + SetMax(ys), 2>>>>

SameFraction(a, b) == a[1] * b[2] = b[1] * a[2]

\* C8 as stated: for every closed ring the sort key of assign_zone_ids equals
\* the first-moment centroid of the ring (bounding-box centre at zero area).
C8_KeyIsMomentCentroid ==
    Assigned =>
        \A i \in 1..Len(polygon_data) :
            LET ring == RingOf(polygon_data[i].polygon)
            IN  IsClosedRing(ring) =>
                    /\ SameFraction(polygon_data[i].centroid_x, MomentCentroid(ring)[1])
                    /\ SameFraction(polygon_data[i].centroid_y, MomentCentroid(ring)[2])

\* C8 amended: for every closed ring the sort key of assign_zone_ids is the
\* arithmetic mean of the ring's vertices, the closing point left out.
C8_KeyIsVertexMean ==
    Assigned =>
        \A i \in 1..Len(polygon_data) :
            LET ring == RingOf(polygon_data[i].polygon)
                m == Len(ring) - 1
            IN  IsClosedRing(ring) =>
                    /\ polygon_data[i].centroid_x[2] > 0
                    /\ polygon_data[i].centroid_y[2] > 0
                    /\ polygon_data[i].centroid_x[1] * m
                           = CoordSum(ring, 1, m) * polygon_data[i].centroid_x[2]
                    /\ polygon_data[i].centroid_y[1] * m
                           = CoordSum(ring, 2, m) * polygon_data[i].centroid_y[2]

\* a ring whose vertex mean is not its first-moment centroid has been keyed
C8_Witness ==
    /\ Assigned
    /\ \E i \in 1..Len(polygon_data) :
           /\ RingOf(polygon_data[i].polygon) = Notched
           /\ ~SameFraction(polygon_data[i].centroid_y, MomentCentroid(Notched)[2])

\* the sort key of a polygon, from its ring alone
MeanKey(poly) ==
    LET ring == RingOf(poly)
        m == Len(ring) - 1
    IN  IF m > 0
            THEN [centroid_x |-> <<CoordSum(ring, 1, m), m>>,
                  centroid_y |-> <<CoordSum(ring, 2, m), m>>]
            ELSE [centroid_x |-> <<0, 1>>, centroid_y |-> <<0, 1>>]

SameKey(p, q) == KeyNotAfter(MeanKey(p), MeanKey(q)) /\ KeyNotAfter(MeanKey(q), MeanKey(p))

DistinctKeys(polys) ==
    \A i, j \in 1..Len(polys) : i # j => ~SameKey(polys[i], polys[j])

Geometries(seq) == [k \in 1..Len(seq) |-> seq[k].geometry]

\* the geometries of the entries of seq that have the sort key of p, in order
TiedWith(seq, p) == Geometries(SelectSeq(seq, LAMBDA e : SameKey(e, p)))

\* C9: assign_zone_ids applied to its own output returns it unchanged; polygons
\* with equal centroids keep their relative input order; a permutation of
\* polygons with pairwise distinct centroids gives the same output sequence.
C9_IdempotentStable ==
    /\ rerun.kind = "again" => rerun.features = features
    /\ Assigned =>
           \A k \in 1..Len(polygons) :
               TiedWith(features, polygons[k]) = TiedWith(polygons, polygons[k])
    /\ (rerun.kind = "permuted" /\ DistinctKeys(polygons)) => rerun.features = features

\* a reordered list of three or more polygons with distinct centroids
C9_Witness ==
    /\ rerun.kind = "permuted"
    /\ Len(polygons) >= 3
    /\ DistinctKeys(polygons)
    /\ rerun.input # polygons
    /\ Geometries(features) # Geometries(polygons)

(***************************************************************************)
(* transform_coordinates (services/georeference.py)                         *)
(*                                                                          *)
(* Every coordinate is an exact fraction <<n, d>> in lowest terms, d > 0;   *)
(* a vertex is <<X, Y>> with X and Y fractions. Rounding of the floats is   *)
(* left out.                                                                *)
(***************************************************************************)
MaxFeatures == 2

Abs(a) == IF a < 0 THEN -a ELSE a

RECURSIVE GCD(_, _)
GCD(a, b) == IF b = 0 THEN a ELSE GCD(b, a % b)

Frac(n, d) ==
    LET sn == IF d < 0 THEN -n ELSE n
        sd == Abs(d)
        g == GCD(Abs(n), sd)
    IN  <<sn \div g, sd \div g>>

Whole(n) == <<n, 1>>
FAdd(a, b) == Frac(a[1] * b[2] + b[1] * a[2], a[2] * b[2])
FSub(a, b) == Frac(a[1] * b[2] - b[1] * a[2], a[2] * b[2])
FMul(a, b) == Frac(a[1] * b[1], a[2] * b[2])
FDiv(a, b) == Frac(a[1] * b[2], a[2] * b[1])

Vertex(x, y) == <<Whole(x), Whole(y)>>

GeoRing(ring) == [k \in 1..Len(ring) |-> Vertex(ring[k][1], ring[k][2])]

GeoFeature(i, ring) ==
    [type |-> "Feature",
     properties |-> [zone_id |-> ZoneIdFormat(i)],
     geometry |-> [type |-> "Polygon", coordinates |-> <<GeoRing(ring)>>]]

GeoWidth == 4
GeoHeight == 2

\* pixel-space rings: the outline of the whole image and a triangle inside it
GeoRings ==
    {<<<<0, 0>>, <<GeoWidth, 0>>, <<GeoWidth, GeoHeight>>, <<0, GeoHeight>>, <<0, 0>>>>,
     <<<<1, 0>>, <<3, 1>>, <<2, 2>>, <<1, 0>>>>}

BoundingBoxes ==
    {[top_left_lat |-> Whole(10), top_left_lng |-> Whole(20),
      bottom_right_lat |-> Whole(6), bottom_right_lng |-> Whole(28)],
     [top_left_lat |-> Whole(3), top_left_lng |-> Whole(-1),
      bottom_right_lat |-> Whole(0), bottom_right_lng |-> Whole(2)]}

Det3(M) ==
    M[1][1] * (M[2][2] * M[3][3] - M[2][3] * M[3][2])
        - M[1][2] * (M[2][1] * M[3][3] - M[2][3] * M[3][1])
        + M[1][3] * (M[2][1] * M[3][2] - M[2][2] * M[3][1])

\* the invertible 3x3 matrices [[a, b, c], [0, e, f], [g, 0, 1]] the control
\* points of the model are taken from
Homographies ==
    {M \in {<<<<a, b, c>>, <<0, e, f>>, <<g, 0, 1>>>> :
                a \in {1, 2}, b \in {0, 1}, c \in {0, 3}, e \in {1, 2}, f \in {0, 1},
                g \in {0, 1}} : Det3(M) # 0}

\* cv2.perspectiveTransform on one point: (X / w, Y / w), (0, 0) when w = 0
Project(M, v) ==
    LET X == FAdd(FAdd(FMul(Whole(M[1][1]), v[1]), FMul(Whole(M[1][2]), v[2])), Whole(M[1][3]))
        Y == FAdd(FAdd(FMul(Whole(M[2][1]), v[1]), FMul(Whole(M[2][2]), v[2])), Whole(M[2][3]))
        w == FAdd(FAdd(FMul(Whole(M[3][1]), v[1]), FMul(Whole(M[3][2]), v[2])), Whole(M[3][3]))
    IN  IF w[1] = 0 THEN <<Whole(0), Whole(0)>> ELSE <<FDiv(X, w), FDiv(Y, w)>>

ControlPoint(M, x, y) ==
    LET geo == Project(M, Vertex(x, y))
    IN  [image_x |-> Whole(x), image_y |-> Whole(y), geo_lng |-> geo[1], geo_lat |-> geo[2]]

\* the image corners and the pixel (1, 1), georeferenced through M
ControlPointsOf(M) ==
    <<ControlPoint(M, 0, 0), ControlPoint(M, GeoWidth, 0),
      ControlPoint(M, GeoWidth, GeoHeight), ControlPoint(M, 0, GeoHeight),
      ControlPoint(M, 1, 1)>>

Fits(M, cps) ==
    \A k \in 1..Len(cps) :
        Project(M, <<cps[k].image_x, cps[k].image_y>>) = <<cps[k].geo_lng, cps[k].geo_lat>>

\* variant: the matrix is fitted to the first two control points only
SolveHomography_TwoPoints(cps) == CHOOSE M \in Homographies : Fits(M, SubSeq(cps, 1, 2))

\* cv2.getPerspectiveTransform (4 points) and cv2.findHomography (more): the
\* matrix with last entry 1 that maps every source point to its destination
SolveHomography(cps) == CHOOSE M \in Homographies : Fits(M, cps)

\* variant: x is normalised by the image height
BoxMap_HeightForWidth(box, w, h, v) ==
    LET norm_x == FDiv(v[1], Whole(h))
        norm_y == FDiv(v[2], Whole(h))
    IN  <<FAdd(box.top_left_lng,
               FMul(norm_x, FSub(box.bottom_right_lng, box.top_left_lng))),
          FAdd(box.top_left_lat,
               FMul(norm_y, FSub(box.bottom_right_lat, box.top_left_lat)))>>

BoxMap(box, w, h, v) ==
    LET norm_x == FDiv(v[1], Whole(w))
        norm_y == FDiv(v[2], Whole(h))
    IN  <<FAdd(box.top_left_lng,
               FMul(norm_x, FSub(box.bottom_right_lng, box.top_left_lng))),
          FAdd(box.top_left_lat,
               FMul(norm_y, FSub(box.bottom_right_lat, box.top_left_lat)))>>

\* the bounding-box loop: feature["geometry"]["coordinates"] = [transformed]
BoxFeatures(feats, w, h, box) ==
    [i \in 1..Len(feats) |->
        [feats[i] EXCEPT !.geometry.coordinates =
            <<[k \in 1..Len(feats[i].geometry.coordinates[1]) |->
                  BoxMap(box, w, h, feats[i].geometry.coordinates[1][k])]>>]]

\* variant: the features come back in reverse order
ProjectFeatures_Reversed(feats, matrix) ==
    [i \in 1..Len(feats) |->
        [feats[Len(feats) + 1 - i] EXCEPT !.geometry.coordinates =
            <<[k \in 1..Len(feats[Len(feats) + 1 - i].geometry.coordinates[1]) |->
                  Project(matrix, feats[Len(feats) + 1 - i].geometry.coordinates[1][k])]>>]]

\* the control-point loops: cv2.perspectiveTransform on the first ring
ProjectFeatures(feats, matrix) ==
    [i \in 1..Len(feats) |->
        [feats[i] EXCEPT !.geometry.coordinates =
            <<[k \in 1..Len(feats[i].geometry.coordinates[1]) |->
                  Project(matrix, feats[i].geometry.coordinates[1][k])]>>]]

\* variant: the control points are looked at before the bounding box
transform_coordinates_PointsFirst(feats, w, h, cps, box) ==
    IF cps # <<>> /\ Len(cps) >= 4
        THEN ProjectFeatures(feats, SolveHomography(cps))
    ELSE IF box # <<>>
        THEN BoxFeatures(feats, w, h, box[1])
    ELSE feats

transform_coordinates(feats, w, h, cps, box) ==
    IF box # <<>>
        THEN BoxFeatures(feats, w, h, box[1])
    ELSE IF cps # <<>> /\ Len(cps) >= 4
        THEN ProjectFeatures(feats, SolveHomography(cps))
    ELSE feats

TransformCoordinates ==
    /\ gpc = "input"
    /\ geo_result' = transform_coordinates(geo_features, img_width, img_height,
                                           control_points, bounding_box)
    /\ gpc' = "transformed"
    /\ UNCHANGED <<geo_features, img_width, img_height, control_points, bounding_box,
                   geo_response>>
    /\ UNCHANGED <<fillVars, zoneVars, laterVars>>

\* the FeatureCollection of process_image: no step between transform_coordinates
\* and the JSONResponse raises, so the answer is a 200 with the features as
\* transform_coordinates returned them
ProcessRespond ==
    /\ gpc = "transformed"
    /\ geo_response' =
           [status |-> 200,
            features |-> geo_result,
            georeferenced |-> (control_points # <<>> \/ bounding_box # <<>>),
            coordinate_system |->
                IF control_points # <<>> \/ bounding_box # <<>> THEN "EPSG:4326" ELSE "pixel"]
    /\ gpc' = "responded"
    /\ UNCHANGED <<geo_features, img_width, img_height, control_points, bounding_box,
                   geo_result>>
    /\ UNCHANGED <<fillVars, zoneVars, laterVars>>

InitGeo ==
    /\ IdleFill
    /\ IdleZone
    /\ IdleLater
    /\ \E rings \in ListsUpTo(GeoRings, MaxFeatures) :
           geo_features = [i \in 1..Len(rings) |-> GeoFeature(i, rings[i])]
    /\ img_width = GeoWidth
    /\ img_height = GeoHeight
    /\ bounding_box \in {<<>>} \cup {<<b>> : b \in BoundingBoxes}
    /\ \E M \in Homographies : \E n \in 0..5 :
           control_points = SubSeq(ControlPointsOf(M), 1, n)
    /\ geo_result = <<>>
    /\ geo_response = NoGeoResponse
    /\ gpc = "input"

NextGeo ==
    \/ TransformCoordinates
    \/ ProcessRespond

SpecGeo == InitGeo /\ [][NextGeo]_vars

(***************************************************************************)
(* Properties of transform_coordinates                                      *)
(***************************************************************************)
Transformed == gpc = "transformed"

\* the vertices of the first ring of every feature, feature by feature
VerticesOf(feats) == [i \in 1..Len(feats) |-> feats[i].geometry.coordinates[1]]

SameShape(a, b) ==
    /\ Len(a) = Len(b)
    /\ \A i \in 1..Len(a) : Len(a[i]) = Len(b[i])

\* lng = tl_lng + (x / w) (br_lng - tl_lng), lat = tl_lat + (y / h) (br_lat - tl_lat)
IsBoxImage(box, v, out) ==
    /\ FSub(out[1], box.top_left_lng)
           = FDiv(FMul(v[1], FSub(box.bottom_right_lng, box.top_left_lng)), Whole(img_width))
    /\ FSub(out[2], box.top_left_lat)
           = FDiv(FMul(v[2], FSub(box.bottom_right_lat, box.top_left_lat)), Whole(img_height))

\* out is v under the projective map M: out * (g x + h y + 1) = (a x + b y + c), ...
IsProjectiveImage(M, v, out) ==
    LET w == FAdd(FAdd(FMul(Whole(M[3][1]), v[1]), FMul(Whole(M[3][2]), v[2])), Whole(M[3][3]))
    IN  /\ FMul(out[1], w)
               = FAdd(FAdd(FMul(Whole(M[1][1]), v[1]), FMul(Whole(M[1][2]), v[2])), Whole(M[1][3]))
        /\ FMul(out[2], w)
               = FAdd(FAdd(FMul(Whole(M[2][1]), v[1]), FMul(Whole(M[2][2]), v[2])), Whole(M[2][3]))

MapsControlPoints(M) ==
    \A k \in 1..Len(control_points) :
        IsProjectiveImage(M, <<control_points[k].image_x, control_points[k].image_y>>,
                          <<control_points[k].geo_lng, control_points[k].geo_lat>>)

\* <<i, k>>: the k-th vertex of the i-th feature
VertexPlaces ==
    UNION {{<<i, k>> : k \in 1..Len(VerticesOf(geo_features)[i])} :
              i \in 1..Len(geo_features)}

AllBoxImages(box) ==
    /\ SameShape(VerticesOf(geo_features), VerticesOf(geo_result))
    /\ \A pl \in VertexPlaces :
           IsBoxImage(box, VerticesOf(geo_features)[pl[1]][pl[2]],
                      VerticesOf(geo_result)[pl[1]][pl[2]])

AllProjectiveImages(M) ==
    /\ SameShape(VerticesOf(geo_features), VerticesOf(geo_result))
    /\ \A pl \in VertexPlaces :
           IsProjectiveImage(M, VerticesOf(geo_features)[pl[1]][pl[2]],
                             VerticesOf(geo_result)[pl[1]][pl[2]])

\* C10: one mapping per call: the bounding-box linear mapping when a bounding
\* box is given (control points or not); otherwise the projective mapping of
\* the control points when at least 4 are given; otherwise every vertex of
\* every feature comes back unchanged.
C10_OneMappingPerCall ==
    Transformed =>
        IF bounding_box # <<>>
            THEN AllBoxImages(bounding_box[1])
        ELSE IF Len(control_points) >= 4
            THEN \E M \in Homographies :
                    /\ MapsControlPoints(M)
                    /\ AllProjectiveImages(M)
        ELSE geo_result = geo_features

\* bounding box and 5 control points given, and the two mappings disagree
C10_Witness ==
    /\ Transformed
    /\ bounding_box # <<>>
    /\ Len(control_points) = 5
    /\ Len(geo_features) = 2
    /\ geo_result # geo_features
    /\ \A M \in Homographies :
           MapsControlPoints(M) =>
               ~AllProjectiveImages(M)

\* C11: with a bounding box, every vertex (x, y) of every feature comes back as
\* lng = top_left_lng + (x / img_width) (bottom_right_lng - top_left_lng) and
\* lat = top_left_lat + (y / img_height) (bottom_right_lat - top_left_lat);
\* pixel (0, 0) is the top-left corner, pixel (img_width, img_height) the
\* bottom-right corner; lng depends on x only and lat on y only.
C11_BoundingBoxLinear ==
    (Transformed /\ bounding_box # <<>>) =>
        LET box == bounding_box[1]
            in == VerticesOf(geo_features)
            out == VerticesOf(geo_result)
        IN  /\ SameShape(in, out)
            /\ \A pl \in VertexPlaces :
                   LET v == in[pl[1]][pl[2]]
                       o == out[pl[1]][pl[2]]
                   IN  /\ FMul(FSub(o[1], box.top_left_lng), Whole(img_width))
                              = FMul(v[1], FSub(box.bottom_right_lng, box.top_left_lng))
                       /\ FMul(FSub(o[2], box.top_left_lat), Whole(img_height))
                              = FMul(v[2], FSub(box.bottom_right_lat, box.top_left_lat))
                       /\ v = Vertex(0, 0) => o = <<box.top_left_lng, box.top_left_lat>>
                       /\ v = Vertex(img_width, img_height)
                              => o = <<box.bottom_right_lng, box.bottom_right_lat>>
            /\ \A pl \in VertexPlaces, ql \in VertexPlaces :
                   /\ in[pl[1]][pl[2]][1] = in[ql[1]][ql[2]][1]
                          => out[pl[1]][pl[2]][1] = out[ql[1]][ql[2]][1]
                   /\ in[pl[1]][pl[2]][2] = in[ql[1]][ql[2]][2]
                          => out[pl[1]][pl[2]][2] = out[ql[1]][ql[2]][2]

\* a bounding box was applied to the outline of the image and to the triangle:
\* both corners occur, and so do vertices that share x but not y
C11_Witness ==
    /\ Transformed
    /\ bounding_box # <<>>
    /\ Len(geo_features) = 2
    /\ \E pl \in VertexPlaces, ql \in VertexPlaces :
           /\ VerticesOf(geo_features)[pl[1]][pl[2]] = Vertex(0, 0)
           /\ VerticesOf(geo_features)[ql[1]][ql[2]] = Vertex(img_width, img_height)
           /\ VerticesOf(geo_result)[pl[1]][pl[2]] # VerticesOf(geo_result)[ql[1]][ql[2]]
    /\ \E pl \in VertexPlaces, ql \in VertexPlaces :
           /\ VerticesOf(geo_features)[pl[1]][pl[2]][1] = VerticesOf(geo_features)[ql[1]][ql[2]][1]
           /\ VerticesOf(geo_features)[pl[1]][pl[2]][2] # VerticesOf(geo_features)[ql[1]][ql[2]][2]
    /\ geo_result # geo_features

FirstEqualsLast(ring) == Len(ring) > 0 /\ ring[1] = ring[Len(ring)]

\* C12: whatever the georeference spec (bounding box, 4 or more control points,
\* fewer, none), transform_coordinates replaces vertex values only: as many
\* features in the same order with the same zone_id, every ring with as many
\* vertices in the same order, and a ring that was closed is still closed.
C12_OnlyVerticesReplaced ==
    Transformed =>
        /\ Len(geo_result) = Len(geo_features)
        /\ \A i \in 1..Len(geo_features) :
               /\ geo_result[i].type = geo_features[i].type
               /\ geo_result[i].properties = geo_features[i].properties
               /\ geo_result[i].geometry.type = geo_features[i].geometry.type
               /\ Len(geo_result[i].geometry.coordinates) = 1
               /\ Len(geo_result[i].geometry.coordinates[1])
                      = Len(geo_features[i].geometry.coordinates[1])
               /\ FirstEqualsLast(geo_features[i].geometry.coordinates[1])
                      => FirstEqualsLast(geo_result[i].geometry.coordinates[1])
               /\ \A k \in 1..Len(geo_features[i].geometry.coordinates[1]) :
                      \A l \in 1..Len(geo_features[i].geometry.coordinates[1]) :
                          geo_features[i].geometry.coordinates[1][k]
                                  = geo_features[i].geometry.coordinates[1][l]
                              => geo_result[i].geometry.coordinates[1][k]
                                     = geo_result[i].geometry.coordinates[1][l]

\* two different closed rings went through the projective mapping
C12_Witness ==
    /\ Transformed
    /\ bounding_box = <<>>
    /\ Len(control_points) >= 4
    /\ Len(geo_features) = 2
    /\ geo_features[1].geometry # geo_features[2].geometry
    /\ \A i \in 1..2 : FirstEqualsLast(geo_features[i].geometry.coordinates[1])
    /\ \A i \in 1..2 : geo_result[i].geometry # geo_features[i].geometry

InsufficientControlPoints ==
    /\ bounding_box = <<>>
    /\ control_points # <<>>
    /\ Len(control_points) < 4

\* C14: when the control points cannot yield a homography the extraction
\* request fails: it is never answered with a feature collection.
C14_DegenerateSpecIsFatal ==
    (gpc = "responded" /\ InsufficientControlPoints) => geo_response.status # 200

(***************************************************************************)
(* check_overlap and its use by the /api/magic-wand endpoint                *)
(*                                                                         *)
(* Rings are rectilinear with integer vertices, so the region of a ring is  *)
(* a set of unit cells: <<i, j>> is the cell [i, i+1] x [j, j+1].           *)
(***************************************************************************)
MaxExisting == 2

Rect(x0, y0, x1, y1) == <<<<x0, y0>>, <<x1, y0>>, <<x1, y1>>, <<x0, y1>>, <<x0, y0>>>>

BaseSquare == Rect(0, 0, 2, 2)
OverlappingSquare == Rect(1, 1, 3, 3)
EdgeTouching == Rect(2, 0, 3, 2)
CornerTouching == Rect(2, 2, 3, 3)
DisjointSquare == Rect(3, 0, 4, 1)
\* squares (0,0)-(10,10) and (5,5)-(15,15)
ExampleFirst == Rect(0, 0, 10, 10)
ExampleSecond == Rect(5, 5, 15, 15)
\* two unit squares joined at the vertex (1, 1): the ring passes through it twice
FigureEight ==
    <<<<0, 0>>, <<1, 0>>, <<1, 1>>, <<2, 1>>, <<2, 2>>, <<1, 2>>, <<1, 1>>, <<0, 1>>, <<0, 0>>>>
\* too few coordinates for a linear ring
TwoPoints == <<<<0, 0>>, <<1, 1>>>>

CandidateRings == {BaseSquare, FigureEight, TwoPoints, ExampleFirst}

ExistingRings ==
    {BaseSquare, OverlappingSquare, EdgeTouching, CornerTouching, DisjointSquare,
     ExampleSecond, FigureEight, TwoPoints}

\* GeoJSON polygon coordinates: no ring at all, an empty first ring, one ring
ExistingEntries == {<<>>, << <<>> >>} \cup {<<r>> : r \in ExistingRings}

\* shapely closes a ring whose last coordinate differs from the first
CloseRing(ring) ==
    IF ring # <<>> /\ ring[1] # ring[Len(ring)] THEN Append(ring, ring[1]) ELSE ring

\* vertical edges of the ring that a ray from the centre of cell <<i, j>> to
\* the left crosses
CrossingsLeftOf(ring, i, j) ==
    {k \in 1..(Len(ring) - 1) :
        /\ ring[k][1] = ring[k + 1][1]
        /\ ring[k][1] <= i
        /\ Min2(ring[k][2], ring[k + 1][2]) <= j
        /\ j < Max2(ring[k][2], ring[k + 1][2])}

Interior(ring) ==
    IF ring = <<>> THEN {}
    ELSE LET xs == {ring[k][1] : k \in 1..Len(ring)}
             ys == {ring[k][2] : k \in 1..Len(ring)}
         IN  {c \in (SetMin(xs)..(SetMax(xs) - 1)) \X (SetMin(ys)..(SetMax(ys) - 1)) :
                 Cardinality(CrossingsLeftOf(ring, c[1], c[2])) % 2 = 1}

\* is_valid of a polygon without holes: the ring does not pass through a
\* vertex twice
IsSimpleRing(ring) ==
    \A k \in 1..(Len(ring) - 1) : \A l \in 1..(Len(ring) - 1) :
        ring[k] = ring[l] => k = l

\* ShapelyPolygon(ring): a ValueError for 1 or 2 coordinates, else the shape
ShapelyPolygon(ring) ==
    IF Len(ring) \in {1, 2}
        THEN [raised |-> TRUE, cells |-> {}, is_valid |-> FALSE]
        ELSE [raised |-> FALSE,
              cells |-> Interior(CloseRing(ring)),
              is_valid |-> IsSimpleRing(CloseRing(ring))]

\* shape.buffer(0) on an invalid shape: the same region as a valid geometry
Repaired(shape) == IF shape.is_valid THEN shape ELSE [shape EXCEPT !.is_valid = TRUE]

\* a.intersects(b): the closed regions have a point in common, which two
\* closed cells have when they are equal or neighbours, diagonal ones included
Intersects(a, b) ==
    \E c \in a.cells, d \in b.cells :
        Abs(c[1] - d[1]) <= 1 /\ Abs(c[2] - d[2]) <= 1

\* the for loop of check_overlap from entry k on: "true", "false" or "raised"
RECURSIVE ScanExisting(_, _, _)
ScanExisting(new_shape, existing, k) ==
    IF k > Len(existing) THEN "false"
    ELSE IF existing[k] = <<>> \/ existing[k][1] = <<>>
        THEN ScanExisting(new_shape, existing, k + 1)
    ELSE LET existing_shape == ShapelyPolygon(existing[k][1])
         IN  IF existing_shape.raised THEN "raised"
             ELSE IF Intersects(new_shape, Repaired(existing_shape)) THEN "true"
             ELSE ScanExisting(new_shape, existing, k + 1)

\* the body of the try block
OverlapTry(new, existing) ==
    LET new_shape == ShapelyPolygon(new)
    IN  IF new_shape.raised THEN "raised"
        ELSE ScanExisting(Repaired(new_shape), existing, 1)

\* variant: no except clause, the exception leaves the function
check_overlap_NoExcept(new, existing) ==
    IF existing = <<>> THEN [value |-> FALSE, raised |-> FALSE]
    ELSE [value |-> OverlapTry(new, existing) = "true",
          raised |-> OverlapTry(new, existing) = "raised"]

check_overlap(new, existing) ==
    IF existing = <<>> THEN [value |-> FALSE, raised |-> FALSE]
    ELSE [value |-> OverlapTry(new, existing) = "true", raised |-> FALSE]

\* the function applied to its arguments
CallCheckOverlap ==
    /\ opc = "input"
    /\ overlap_ret' = check_overlap(new_polygon, existing_polygons)
    /\ opc' = "called"
    /\ UNCHANGED <<new_polygon, existing_polygons, overlap_response>>
    /\ UNCHANGED <<fillVars, zoneVars, geoVars, vecVars, extractVars, morphVars, endVars>>

\* a ring as mask_to_polygon returns it
IsVectorizerRing(ring) == Len(ring) >= 4 /\ ring[1] = ring[Len(ring)]

\* the endpoint after mask_to_polygon returned result["polygon"] = [new_polygon]:
\* the overlap test, its failure answer, and the way on to the OCR stage
OverlapGuard ==
    /\ opc = "input"
    /\ IsVectorizerRing(new_polygon)
    /\ LET r == IF existing_polygons # <<>>
                    THEN check_overlap(new_polygon, existing_polygons)
                    ELSE NoOverlapReturn
       IN  /\ overlap_ret' = r
           /\ IF r.raised
                  THEN /\ overlap_response' = [status |-> 500, success |-> FALSE,
                                               error |-> "Exception"]
                       /\ opc' = "responded"
              ELSE IF r.value
                  THEN /\ overlap_response' =
                              [status |-> 200, success |-> FALSE,
                               error |-> "This area overlaps with an existing selection"]
                       /\ opc' = "responded"
              ELSE /\ overlap_response' = overlap_response
                   /\ opc' = "ocr"
    /\ UNCHANGED <<new_polygon, existing_polygons>>
    /\ UNCHANGED <<fillVars, zoneVars, geoVars, vecVars, extractVars, morphVars, endVars>>

InitOverlap ==
    /\ IdleFill
    /\ IdleZone
    /\ IdleGeo
    /\ IdleEnd
    /\ IdleVec
    /\ IdleExtract
    /\ IdleMorph
    /\ new_polygon \in CandidateRings
    /\ existing_polygons \in ListsUpTo(ExistingEntries, MaxExisting)
    /\ overlap_ret = NoOverlapReturn
    /\ overlap_response = NoResponse
    /\ opc = "input"

NextOverlap ==
    \/ CallCheckOverlap
    \/ OverlapGuard

SpecOverlap == InitOverlap /\ [][NextOverlap]_vars

(***************************************************************************)
(* Properties of check_overlap                                              *)
(***************************************************************************)
HasRing(entry) == entry # <<>> /\ entry[1] # <<>>

Buildable(ring) == Len(ring) >= 3

SharesArea(a, b) == Interior(CloseRing(a)) \cap Interior(CloseRing(b)) # {}

\* the two regions have a boundary point in common and no area
OnlyTouches(a, b) ==
    /\ ~SharesArea(a, b)
    /\ \E c \in Interior(CloseRing(a)), d \in Interior(CloseRing(b)) :
           Abs(c[1] - d[1]) <= 1 /\ Abs(c[2] - d[2]) <= 1

AllBuildable ==
    /\ Buildable(new_polygon)
    /\ \A k \in 1..Len(existing_polygons) :
           HasRing(existing_polygons[k]) => Buildable(existing_polygons[k][1])

\* C15: check_overlap returns true exactly when the candidate shares area with
\* the exterior ring of some existing polygon: true for overlapping squares,
\* false for disjoint ones, and false for polygons that only touch along an
\* edge or at a corner, self-touching rings included.
C15_TrueExactlyOnSharedArea ==
    (opc = "called" /\ AllBuildable) =>
        (overlap_ret.value
            <=> \E k \in 1..Len(existing_polygons) :
                    /\ HasRing(existing_polygons[k])
                    /\ SharesArea(new_polygon, existing_polygons[k][1]))

Meets(a, b) == SharesArea(a, b) \/ OnlyTouches(a, b)

\* entry k makes the construction of its shape fail
FailsAt(k) ==
    HasRing(existing_polygons[k]) /\ ~Buildable(existing_polygons[k][1])

\* entry k is found to intersect the candidate
HitsAt(k) ==
    /\ HasRing(existing_polygons[k])
    /\ Buildable(existing_polygons[k][1])
    /\ Meets(new_polygon, existing_polygons[k][1])

\* a geometry operation fails before any intersecting entry is found
FailsBeforeAnyHit ==
    \/ ~Buildable(new_polygon)
    \/ \E k \in 1..Len(existing_polygons) :
           FailsAt(k) /\ \A j \in 1..(k - 1) : ~HitsAt(j)

WithoutRingless(existing) == SelectSeq(existing, LAMBDA e : HasRing(e))

\* C16: check_overlap never raises: it returns false when a geometry cannot be
\* built, false when the list of existing polygons is empty or absent, and it
\* passes over entries with no exterior ring; the endpoint then goes on to the
\* OCR stage instead of answering with a failure.
C16_NeverRaises ==
    /\ opc = "called" =>
           /\ ~overlap_ret.raised
           /\ existing_polygons = <<>> => ~overlap_ret.value
           /\ (existing_polygons # <<>> /\ FailsBeforeAnyHit) => ~overlap_ret.value
           /\ overlap_ret.value
                  = check_overlap(new_polygon, WithoutRingless(existing_polygons)).value
           /\ overlap_ret.value
                  <=> /\ Buildable(new_polygon)
                      /\ \E k \in 1..Len(existing_polygons) :
                             HitsAt(k) /\ \A j \in 1..(k - 1) : ~FailsAt(j)
    /\ opc \in {"ocr", "responded"} =>
           /\ ~overlap_ret.raised
           /\ overlap_response.status # 500
           /\ ~overlap_ret.value => (opc = "ocr" /\ overlap_response = NoResponse)
           /\ overlap_ret.value => (opc = "responded" /\ ~overlap_response.success)

\* the first existing ring cannot be built and the second one overlaps the
\* candidate: the call came back with false
C16_Witness ==
    /\ opc = "called"
    /\ Len(existing_polygons) = 2
    /\ FailsAt(1)
    /\ HasRing(existing_polygons[2])
    /\ Buildable(new_polygon)
    /\ SharesArea(new_polygon, existing_polygons[2][1])
    /\ overlap_ret = [value |-> FALSE, raised |-> FALSE]

(***************************************************************************)
(* contour_to_polygon (batch path) and mask_to_polygon (magic-wand path)    *)
(*                                                                         *)
(* A contour is the sequence of its points <<x, y>>, as cv2.findContours    *)
(* and cv2.approxPolyDP return them: the points of an outline, no point     *)
(* listed twice. What approxPolyDP keeps of a contour depends on epsilon;  *)
(* the model lets it keep the first n points for any n >= 1.                *)
(***************************************************************************)
MaxContourPoints == 4
MaxContours == 2

ContourGrid == (0..1) \X (0..1)

RECURSIVE DistinctSeqs(_, _)
\* the sequences of n pairwise different elements of S
DistinctSeqs(S, n) ==
    IF n = 0 THEN {<<>>}
    ELSE UNION {{Append(q, e) : e \in S \ {q[k] : k \in 1..Len(q)}} :
                   q \in DistinctSeqs(S, n - 1)}

BatchContours == UNION {DistinctSeqs(ContourGrid, n) : n \in 1..MaxContourPoints}

Outline(x0, y0, x1, y1) == <<<<x0, y0>>, <<x1, y0>>, <<x1, y1>>, <<x0, y1>>>>

\* outlines of area 12, 10 and 9
RawContours == {Outline(0, 0, 4, 3), Outline(0, 0, 5, 2), Outline(0, 0, 3, 3)}

\* a contour of the mask with what cv2.approxPolyDP keeps of it
WandContours ==
    {[points |-> c, simplified |-> SubSeq(c, 1, n)] : c \in RawContours, n \in 1..4}

MinWandArea == 10

\* coords.append(coords[0]) unless the contour already ends where it starts
CloseCoords(coords) ==
    IF coords[1] # coords[Len(coords)] THEN Append(coords, coords[1]) ELSE coords

\* variant: a ring is returned however short it is
contour_to_polygon_NoLengthCheck(contour) ==
    IF Len(contour) = 1 THEN <<>>
    ELSE <<[type |-> "Polygon", coordinates |-> <<CloseCoords(contour)>>]>>

\* squeeze() leaves a single point as a 1-D array
contour_to_polygon(contour) ==
    IF Len(contour) = 1 THEN <<>>
    ELSE IF Len(CloseCoords(contour)) < 4 THEN <<>>
    ELSE <<[type |-> "Polygon", coordinates |-> <<CloseCoords(contour)>>]>>

\* twice cv2.contourArea
ContourArea2(points) == Abs(CrossSum(CloseCoords(points), Len(CloseCoords(points)) - 1))

\* max(contours, key=cv2.contourArea): the first contour of the largest area
LargestContour(contours) ==
    contours[CHOOSE k \in 1..Len(contours) :
                 /\ \A j \in 1..Len(contours) :
                        ContourArea2(contours[j].points) <= ContourArea2(contours[k].points)
                 /\ \A j \in 1..(k - 1) :
                        ContourArea2(contours[j].points) < ContourArea2(contours[k].points)]

\* m10 / m00, m01 / m00 of cv2.moments, x + w / 2, y + h / 2 of the bounding
\* rectangle when m00 = 0; each coordinate a fraction <<numerator, denominator>>
ContourCentroid(points) ==
    LET ring == CloseCoords(points)
        m == Len(ring) - 1
        xs == {points[k][1] : k \in 1..Len(points)}
        ys == {points[k][2] : k \in 1..Len(points)}
    IN  IF CrossSum(ring, m) # 0
            THEN <<<<MomentSum(ring, 1, m), 3 * CrossSum(ring, m)>>,
                   <<MomentSum(ring, 2, m), 3 * CrossSum(ring, m)>>>>
            ELSE <<<<SetMin(xs) + SetMax(xs) + 1, 2>>, <<SetMin(ys) + SetMax(ys) + 1, 2>>>>

mask_to_polygon(contours) ==
    IF contours = <<>> THEN <<>>
    ELSE LET contour == LargestContour(contours)
             simplified == contour.simplified
         IN  IF ContourArea2(contour.points) < 2 * MinWandArea THEN <<>>
             ELSE IF Len(simplified) < 3 THEN <<>>
             ELSE IF Len(simplified) = 1 THEN <<>>
             ELSE <<[polygon |-> <<CloseCoords(simplified)>>,
                     centroid |-> ContourCentroid(contour.points),
                     area |-> <<ContourArea2(contour.points), 2>>]>>

ContourToPolygon ==
    /\ vpc # {"idle"}
    /\ "batch" \notin vpc
    /\ batch_result' = contour_to_polygon(batch_contour)
    /\ vpc' = vpc \cup {"batch"}
    /\ UNCHANGED <<batch_contour, wand_contours, wand_result>>
    /\ UNCHANGED <<fillVars, zoneVars, geoVars, overlapVars, extractVars, morphVars, endVars>>

MaskToPolygon ==
    /\ vpc # {"idle"}
    /\ "wand" \notin vpc
    /\ wand_result' = mask_to_polygon(wand_contours)
    /\ vpc' = vpc \cup {"wand"}
    /\ UNCHANGED <<batch_contour, batch_result, wand_contours>>
    /\ UNCHANGED <<fillVars, zoneVars, geoVars, overlapVars, extractVars, morphVars, endVars>>

InitVec ==
    /\ IdleFill
    /\ IdleZone
    /\ IdleGeo
    /\ IdleEnd
    /\ IdleOverlap
    /\ IdleExtract
    /\ IdleMorph
    /\ batch_contour \in BatchContours
    /\ batch_result = <<>>
    /\ wand_contours \in ListsUpTo(WandContours, MaxContours)
    /\ wand_result = <<>>
    /\ vpc = {}

NextVec ==
    \/ ContourToPolygon
    \/ MaskToPolygon

SpecVec == InitVec /\ [][NextVec]_vars

(***************************************************************************)
(* Properties of the rings the vectorizer returns                           *)
(***************************************************************************)
PointsOf(seq) == {seq[k] : k \in 1..Len(seq)}

\* closed, with at least 3 distinct points before the closing point
IsProperRing(ring) ==
    /\ Len(ring) >= 2
    /\ ring[1] = ring[Len(ring)]
    /\ Cardinality(PointsOf(SubSeq(ring, 1, Len(ring) - 1))) >= 3

\* C17: every ring contour_to_polygon and mask_to_polygon return is closed and
\* has at least 3 distinct points before the closing point, and a contour with
\* fewer than 3 distinct points yields no ring.
C17_RingsClosedAndProper ==
    /\ "batch" \in vpc =>
           /\ batch_result # <<>> => IsProperRing(batch_result[1].coordinates[1])
           /\ Cardinality(PointsOf(batch_contour)) < 3 => batch_result = <<>>
    /\ "wand" \in vpc =>
           /\ wand_result # <<>> => IsProperRing(wand_result[1].polygon[1])
           /\ (wand_contours # <<>>
                   /\ Cardinality(PointsOf(LargestContour(wand_contours).simplified)) < 3)
                  => wand_result = <<>>

\* both paths returned a ring of 3 points and the closing point, the magic-wand
\* one from the larger of two contours
C17_Witness ==
    /\ vpc = {"batch", "wand"}
    /\ Len(batch_contour) = 3
    /\ batch_result # <<>>
    /\ Len(batch_result[1].coordinates[1]) = 4
    /\ Len(wand_contours) = 2
    /\ wand_result # <<>>
    /\ Len(wand_result[1].polygon[1]) = 4

(***************************************************************************)
(* process_image: the crop, img_area, and the loop of                       *)
(* extract_region_contours over the contours cv2.findContours returned      *)
(***************************************************************************)
MaxTraced == 2
ExtractWidth == 10
ExtractHeight == 10

\* length of a[start:stop] for an axis of n elements
SliceLen(n, start, stop) ==
    LET lo == IF start < 0 THEN Max2(start + n, 0) ELSE Min2(start, n)
        hi == IF stop < 0 THEN Max2(stop + n, 0) ELSE Min2(stop, n)
    IN  Max2(hi - lo, 0)

\* img.shape after img[crop.y: crop.y + crop.height, crop.x: crop.x + crop.width]
CroppedWidth(w, c) == IF c = <<>> THEN w ELSE SliceLen(w, c[1].x, c[1].x + c[1].width)
CroppedHeight(h, c) == IF c = <<>> THEN h ELSE SliceLen(h, c[1].y, c[1].y + c[1].height)

\* a crop inside the image, one that overhangs its right edge, one to the
\* right of the image, one that starts left of it and one of zero width
Crops ==
    {[x |-> 0, y |-> 0, width |-> 5, height |-> ExtractHeight],
     [x |-> 5, y |-> 0, width |-> ExtractWidth, height |-> ExtractHeight],
     [x |-> ExtractWidth, y |-> 0, width |-> 5, height |-> 5],
     [x |-> -2, y |-> 0, width |-> 5, height |-> 5],
     [x |-> 2, y |-> 2, width |-> 0, height |-> 5]}

\* min_area_percent as a fraction: 0, the default 0.1, 10 and 24
MinAreaPercents == {<<0, 1>>, <<1, 10>>, <<10, 1>>, <<24, 1>>}

Line == <<<<0, 0>>, <<3, 0>>>>

\* a traced contour with what cv2.approxPolyDP would keep of it
TracedContours ==
    {[points |-> c, simplified |-> SubSeq(c, 1, n)] : c \in RawContours, n \in {2, 3}}
        \cup {[points |-> Line, simplified |-> Line]}

\* area >= img_area * (min_area_percent / 100), with area = area2 / 2
AtLeastMinArea(area2, area, percent) ==
    area2 * 100 * percent[2] >= 2 * area * percent[1]

\* variant: the contour is simplified first and the area of what is left is
\* compared with the threshold
FilterContour_SimplifyFirst(contour, st, area) ==
    LET smoothed == IF st.smooth_contours THEN contour.simplified ELSE contour.points
    IN  [simplified |-> st.smooth_contours,
         kept |-> IF AtLeastMinArea(ContourArea2(smoothed), area, st.min_area_percent)
                         /\ Len(smoothed) >= 3
                      THEN <<smoothed>>
                      ELSE <<>>]

\* one pass of the for loop: whether approxPolyDP was called, and the contour
\* appended to valid_contours, if any
FilterContour(contour, st, area) ==
    IF AtLeastMinArea(ContourArea2(contour.points), area, st.min_area_percent)
        THEN LET smoothed == IF st.smooth_contours THEN contour.simplified
                                                   ELSE contour.points
             IN  [simplified |-> st.smooth_contours,
                  kept |-> IF Len(smoothed) >= 3 THEN <<smoothed>> ELSE <<>>]
        ELSE [simplified |-> FALSE, kept |-> <<>>]

\* decode, crop, img_area; an empty image makes the preprocessing raise
ComputeImageArea ==
    /\ epc = "request"
    /\ img_area' = CroppedWidth(original_width, crop) * CroppedHeight(original_height, crop)
    /\ IF img_area' = 0
           THEN /\ epc' = "failed"
                /\ extract_status' = 500
           ELSE /\ epc' = "loop"
                /\ extract_status' = extract_status
    /\ contour_index' = 1
    /\ UNCHANGED <<original_width, original_height, crop, settings, traced,
                   simplified_calls, valid_contours, valid_from>>
    /\ UNCHANGED <<fillVars, zoneVars, geoVars, overlapVars, vecVars, morphVars, endVars>>

ExtractStep ==
    /\ epc = "loop"
    /\ contour_index <= Len(traced)
    /\ LET r == FilterContour(traced[contour_index], settings, img_area)
       IN  /\ simplified_calls' = IF r.simplified
                                      THEN simplified_calls \cup {contour_index}
                                      ELSE simplified_calls
           /\ valid_contours' = valid_contours \o r.kept
           /\ valid_from' = IF r.kept # <<>> THEN Append(valid_from, contour_index)
                                             ELSE valid_from
    /\ contour_index' = contour_index + 1
    /\ UNCHANGED <<original_width, original_height, crop, settings, traced, img_area,
                   extract_status, epc>>
    /\ UNCHANGED <<fillVars, zoneVars, geoVars, overlapVars, vecVars, morphVars, endVars>>

ExtractReturn ==
    /\ epc = "loop"
    /\ contour_index > Len(traced)
    /\ epc' = "returned"
    /\ UNCHANGED <<original_width, original_height, crop, settings, traced, img_area,
                   contour_index, simplified_calls, valid_contours, valid_from,
                   extract_status>>
    /\ UNCHANGED <<fillVars, zoneVars, geoVars, overlapVars, vecVars, morphVars, endVars>>

InitExtract ==
    /\ IdleFill
    /\ IdleZone
    /\ IdleGeo
    /\ IdleEnd
    /\ IdleOverlap
    /\ IdleVec
    /\ IdleMorph
    /\ original_width = ExtractWidth
    /\ original_height = ExtractHeight
    /\ crop \in {<<>>} \cup {<<c>> : c \in Crops}
    /\ settings \in [min_area_percent : MinAreaPercents, smooth_contours : BOOLEAN]
    /\ traced \in ListsUpTo(TracedContours, MaxTraced)
    /\ img_area = 0
    /\ contour_index = 0
    /\ simplified_calls = {}
    /\ valid_contours = <<>>
    /\ valid_from = <<>>
    /\ extract_status = 0
    /\ epc = "request"

NextExtract ==
    \/ ComputeImageArea
    \/ ExtractStep
    \/ ExtractReturn

SpecExtract == InitExtract /\ [][NextExtract]_vars

(***************************************************************************)
(* Properties of the minimum-area filter                                    *)
(***************************************************************************)
\* the crop lies inside the original image
CropInside ==
    /\ crop # <<>>
    /\ crop[1].x >= 0 /\ crop[1].y >= 0
    /\ crop[1].width >= 0 /\ crop[1].height >= 0
    /\ crop[1].x + crop[1].width <= original_width
    /\ crop[1].y + crop[1].height <= original_height

\* area of the k-th traced contour >= img_area * min_area_percent / 100
MeetsThreshold(k) ==
    ContourArea2(traced[k].points) * 100 * settings.min_area_percent[2]
        >= 2 * img_area * settings.min_area_percent[1]

\* the k-th contour as it stands at the vertex-count check
AfterSmoothing(k) ==
    IF settings.smooth_contours THEN traced[k].simplified ELSE traced[k].points

\* C18: the minimum-area filter comes before the simplification, with the
\* threshold img_area * min_area_percent / 100 where img_area is the area of
\* the whole (cropped) image: a contour below the threshold is never given to
\* approxPolyDP and never returned; a contour at or above it is returned when
\* it has at least 3 points left.
C18_AreaFilterBeforeSimplify ==
    /\ epc \in {"loop", "returned"} =>
           /\ crop = <<>> => img_area = original_width * original_height
           /\ CropInside => img_area = crop[1].width * crop[1].height
           /\ \A k \in simplified_calls : MeetsThreshold(k) /\ settings.smooth_contours
           /\ Len(valid_from) = Len(valid_contours)
           /\ \A j \in 1..Len(valid_from) :
                  /\ MeetsThreshold(valid_from[j])
                  /\ valid_contours[j] = AfterSmoothing(valid_from[j])
                  /\ Len(valid_contours[j]) >= 3
                  /\ \A i \in 1..(j - 1) : valid_from[i] < valid_from[j]
    /\ epc = "returned" =>
           \A k \in 1..Len(traced) :
               /\ (MeetsThreshold(k) /\ Len(AfterSmoothing(k)) >= 3)
                      <=> \E j \in 1..Len(valid_from) : valid_from[j] = k
               /\ (MeetsThreshold(k) /\ settings.smooth_contours)
                      <=> k \in simplified_calls

\* of two traced contours the first is below the threshold and was neither
\* simplified nor returned, the second is exactly at the threshold and was
\* simplified and returned
C18_Witness ==
    /\ epc = "returned"
    /\ settings.smooth_contours
    /\ Len(traced) = 2
    /\ ~MeetsThreshold(1)
    /\ ContourArea2(traced[2].points) * 100 * settings.min_area_percent[2]
           = 2 * img_area * settings.min_area_percent[1]
    /\ img_area > 0
    /\ simplified_calls = {2}
    /\ valid_from = <<2>>

(***************************************************************************)
(* Properties of the crop                                                   *)
(***************************************************************************)
\* the crop rectangle is not empty and lies inside the decoded image
CropContained ==
    /\ crop[1].x >= 0 /\ crop[1].y >= 0
    /\ crop[1].width > 0 /\ crop[1].height > 0
    /\ crop[1].x + crop[1].width <= original_width
    /\ crop[1].y + crop[1].height <= original_height

\* C21: a crop rectangle that is not contained in the decoded image is
\* rejected before any processing starts and is reported as a validation
\* failure: the request never reaches the contour loop and does not end in
\* the generic status 500.
C21_UncontainedCropRejected ==
    (epc # "request" /\ crop # <<>> /\ ~CropContained) =>
        /\ epc \notin {"loop", "returned"}
        /\ extract_status # 500

(***************************************************************************)
(* Mask cleanup: refine_mask and lines 65-72 of extract_region_contours     *)
(*                                                                         *)
(* A mask is its width, its height and the set of its pixels that are 255. *)
(***************************************************************************)
MaxMaskPixels == 6
MaxKernel == 3
RefineKernel == 3

MaskDims == {d \in (1..MaxMaskPixels) \X (1..MaxMaskPixels) : d[1] * d[2] <= MaxMaskPixels}

Masks == UNION {{[w |-> d[1], h |-> d[2], on |-> S] : S \in SUBSET Pos(d[1], d[2])} :
                   d \in MaskDims}

\* np.ones((k, k)) with the anchor at its centre k // 2: the offsets of the
\* pixels a kernel position looks at
KernelOffsets(k) == ((0 - (k \div 2))..(k - 1 - (k \div 2))) \X ((0 - (k \div 2))..(k - 1 - (k \div 2)))

Shifted(p, off) == <<p[1] + off[1], p[2] + off[2]>>

\* the array as stored: the set S with its elements listed one by one
Stored(S) == UNION {{e} : e \in S}

\* cv2.dilate: the maximum over the kernel, pixels outside the image left out
Dilate(m, k) ==
    LET on == m.on
        offsets == KernelOffsets(k)
    IN  [w |-> m.w, h |-> m.h,
         on |-> Stored({p \in Pos(m.w, m.h) : \E off \in offsets : Shifted(p, off) \in on})]

\* variant: the pixels outside the image count as 0
Erode_ZeroBorder(m, k) ==
    LET on == m.on
        offsets == KernelOffsets(k)
    IN  [w |-> m.w, h |-> m.h,
         on |-> Stored({p \in Pos(m.w, m.h) : \A off \in offsets : Shifted(p, off) \in on})]

\* cv2.erode: the minimum over the kernel, pixels outside the image left out
Erode(m, k) ==
    LET on == m.on
        pixels == Pos(m.w, m.h)
        offsets == KernelOffsets(k)
    IN  [w |-> m.w, h |-> m.h,
         on |-> Stored({p \in pixels :
                           \A off \in offsets :
                               Shifted(p, off) \in pixels => Shifted(p, off) \in on})]

RECURSIVE DilateTimes(_, _, _)
DilateTimes(m, k, n) == IF n = 0 THEN m ELSE DilateTimes(Dilate(m, k), k, n - 1)

RECURSIVE ErodeTimes(_, _, _)
ErodeTimes(m, k, n) == IF n = 0 THEN m ELSE ErodeTimes(Erode(m, k), k, n - 1)

\* cv2.morphologyEx(m, cv2.MORPH_CLOSE, kernel, iterations=n)
MorphClose(m, k, n) == ErodeTimes(DilateTimes(m, k, n), k, n)

\* cv2.morphologyEx(m, cv2.MORPH_OPEN, kernel, iterations=n)
MorphOpen(m, k, n) == DilateTimes(ErodeTimes(m, k, n), k, n)

OnBorder(m, p) == p[1] = 0 \/ p[2] = 0 \/ p[1] = m.w - 1 \/ p[2] = m.h - 1

\* ndimage.binary_fill_holes: the background that no 4-connected path of
\* background pixels joins to the edge of the image becomes foreground
FillHoles(m) ==
    LET background == Pos(m.w, m.h) \ m.on
        outside == Grow({p \in background : OnBorder(m, p)}, background)
    IN  [m EXCEPT !.on = Pos(m.w, m.h) \ outside]

refine_mask(m) == MorphOpen(MorphClose(m, RefineKernel, 2), RefineKernel, 1)

\* mask after the close, the open and, when asked for, the hole filling
CleanedMask(m, k, fill) ==
    LET opened == MorphOpen(MorphClose(m, k, 2), k, 1)
    IN  IF fill THEN FillHoles(opened) ELSE opened

RefineMask ==
    /\ mpc # {"idle"}
    /\ "refine" \notin mpc
    /\ refined' = refine_mask(mask)
    /\ mpc' = mpc \cup {"refine"}
    /\ UNCHANGED <<mask, mask_before, morph_kernel_size, fill_holes, cleaned>>
    /\ UNCHANGED <<fillVars, zoneVars, geoVars, overlapVars, vecVars, extractVars, endVars>>

CleanupMask ==
    /\ mpc # {"idle"}
    /\ "cleanup" \notin mpc
    /\ cleaned' = CleanedMask(mask, morph_kernel_size, fill_holes)
    /\ mpc' = mpc \cup {"cleanup"}
    /\ UNCHANGED <<mask, mask_before, morph_kernel_size, fill_holes, refined>>
    /\ UNCHANGED <<fillVars, zoneVars, geoVars, overlapVars, vecVars, extractVars, endVars>>

InitMorph ==
    /\ IdleFill
    /\ IdleZone
    /\ IdleGeo
    /\ IdleEnd
    /\ IdleOverlap
    /\ IdleVec
    /\ IdleExtract
    /\ mask \in Masks
    /\ mask_before = mask
    /\ morph_kernel_size \in 1..MaxKernel
    /\ fill_holes \in BOOLEAN
    /\ refined = NoMask
    /\ cleaned = NoMask
    /\ mpc = {}

NextMorph ==
    \/ RefineMask
    \/ CleanupMask

SpecMorph == InitMorph /\ [][NextMorph]_vars

(***************************************************************************)
(* Properties of the mask cleanup                                           *)
(***************************************************************************)
AllEmpty(m) == m.on = {}
AllFull(m) == m.on = Pos(m.w, m.h)

\* C19: the mask cleanup leaves the mask it is given as it was, and gives an
\* all-empty mask and an all-full mask back unchanged, whatever the size of
\* the mask and of the kernel, with and without hole filling.
C19_CleanupPureAndDegenerate ==
    /\ mask = mask_before
    /\ "refine" \in mpc =>
           /\ refined.w = mask.w /\ refined.h = mask.h
           /\ (AllEmpty(mask) \/ AllFull(mask)) => refined = mask
    /\ "cleanup" \in mpc =>
           /\ cleaned.w = mask.w /\ cleaned.h = mask.h
           /\ (AllEmpty(mask) \/ AllFull(mask)) => cleaned = mask

\* an all-full mask of more than one pixel went through both cleanups with a
\* kernel wider than the mask
C19_Witness ==
    /\ mpc = {"refine", "cleanup"}
    /\ AllFull(mask)
    /\ mask.w * mask.h > 1
    /\ morph_kernel_size > mask.w
    /\ refined = mask
    /\ cleaned = mask

(***************************************************************************)
(* Properties of the tolerance-mode selection                               *)
(***************************************************************************)
\* every channel of the pixel is within tolerance of the seed pixel's channel
WithinTolerance(p) ==
    \A k \in 1..3 :
        /\ image.px[p][k] - image.px[Seed][k] <= tolerance
        /\ image.px[Seed][k] - image.px[p][k] <= tolerance

\* C20: tolerance mode never rejects a selection for its size: with the seed
\* inside the image the call returns the filled region with its bounding box
\* and no selection_too_large marker, also when the region is more than 80% or
\* all of the image, and the endpoint never answers 'Selection too large'.
C20_ToleranceNeverTooLarge ==
    (~use_boundary_mode /\ pc \in {"returned", "responded"}) =>
        /\ response.error # "Selection too large"
        /\ SeedInBounds =>
               /\ ret.mask = Reach4({Seed}, {p \in Pos(image.w, image.h) : WithinTolerance(p)})
               /\ Seed \in ret.mask
               /\ ret.bbox = [x |-> SetMin(Cols(ret.mask)),
                              y |-> SetMin(Rows(ret.mask)),
                              width |-> SetMax(Cols(ret.mask)) - SetMin(Cols(ret.mask)) + 1,
                              height |-> SetMax(Rows(ret.mask)) - SetMin(Rows(ret.mask)) + 1,
                              error |-> "none"]

\* tolerance mode selected every pixel of an image of 5 or more pixels that
\* are not all of one colour
C20_Witness ==
    /\ ~use_boundary_mode
    /\ pc = "returned"
    /\ image.w * image.h >= 5
    /\ ret.mask = Pos(image.w, image.h)
    /\ ret.bbox.error = "none"
    /\ \E p \in Pos(image.w, image.h) : image.px[p] # image.px[Seed]

(***************************************************************************)
(* /api/process: the loop over the labels, assign_zone_ids, the answer      *)
(*                                                                          *)
(* regions[k] is what cv2.findContours traces for the k-th label of         *)
(* np.unique(labels), which lists the label ids in ascending order. The     *)
(* request carries the default ExtractionSettings and no georeference.      *)
(***************************************************************************)
MaxLabels == 3

DefaultSettings == [min_area_percent |-> <<1, 10>>, smooth_contours |-> TRUE]

\* a square, a smaller square with the same vertex mean, a square elsewhere,
\* and an outline of which approxPolyDP keeps two points
BatchTraced ==
    {[points |-> Outline(0, 0, 4, 4), simplified |-> Outline(0, 0, 4, 4)],
     [points |-> Outline(1, 1, 3, 3), simplified |-> Outline(1, 1, 3, 3)],
     [points |-> Outline(5, 0, 8, 3), simplified |-> Outline(5, 0, 8, 3)],
     [points |-> Outline(0, 6, 4, 9), simplified |-> SubSeq(Outline(0, 6, 4, 9), 1, 2)]}

\* a label has no contour or one; no contour belongs to two labels
LabelledRegions ==
    {r \in ListsUpTo(ListsUpTo(BatchTraced, 1), MaxLabels) :
        \A i, j \in 1..Len(r) : (i # j /\ r[i] # <<>>) => r[i] # r[j]}

\* extract_region_contours and the inner loop of process_image for one label:
\* the entries appended to all_polygons
RECURSIVE RegionPolygons(_, _, _)
RegionPolygons(contours, st, area) ==
    IF contours = <<>> THEN <<>>
    ELSE LET kept == FilterContour(Head(contours), st, area).kept
             poly == IF kept = <<>> THEN <<>> ELSE contour_to_polygon(kept[1])
         IN  (IF poly # <<>> THEN <<[geometry |-> poly[1]]>> ELSE <<>>)
                 \o RegionPolygons(Tail(contours), st, area)

\* all_polygons after the loop over the labels
RECURSIVE AllPolygons(_, _, _)
AllPolygons(regs, st, area) ==
    IF regs = <<>> THEN <<>>
    ELSE RegionPolygons(Head(regs), st, area) \o AllPolygons(Tail(regs), st, area)

\* the answer of process_image for a segmentation
process_image(regs, st, area) ==
    [status |-> 200, features |-> assign_zone_ids(AllPolygons(regs, st, area))]

\* variant: a label that yields no polygon makes the request fail
ProcessLabel_FailOnInvalid ==
    /\ bpc = "loop"
    /\ label_index <= Len(regions)
    /\ LET polys == RegionPolygons(regions[label_index], DefaultSettings,
                                   ExtractWidth * ExtractHeight)
       IN  IF polys = <<>> /\ regions[label_index] # <<>>
               THEN /\ batch_response' = [status |-> 500, features |-> <<>>]
                    /\ bpc' = "responded"
                    /\ UNCHANGED <<all_polygons, label_index>>
               ELSE /\ all_polygons' = all_polygons \o polys
                    /\ label_index' = label_index + 1
                    /\ UNCHANGED <<batch_response, bpc>>
    /\ UNCHANGED <<regions, relabel, renamed_response>>
    /\ UNCHANGED <<fillVars, zoneVars, geoVars, overlapVars, vecVars, extractVars,
                   morphVars, wandVars, orderVars>>

\* one pass of for label_id in np.unique(labels)
ProcessLabel ==
    /\ bpc = "loop"
    /\ label_index <= Len(regions)
    /\ all_polygons' = all_polygons \o RegionPolygons(regions[label_index], DefaultSettings,
                                                     ExtractWidth * ExtractHeight)
    /\ label_index' = label_index + 1
    /\ UNCHANGED <<regions, relabel, batch_response, renamed_response, bpc>>
    /\ UNCHANGED <<fillVars, zoneVars, geoVars, overlapVars, vecVars, extractVars,
                   morphVars, wandVars, orderVars>>

\* assign_zone_ids, transform_coordinates without georeference, the answer
BatchRespond ==
    /\ bpc = "loop"
    /\ label_index > Len(regions)
    /\ batch_response' = [status |-> 200, features |-> assign_zone_ids(all_polygons)]
    /\ bpc' = "responded"
    /\ UNCHANGED <<regions, relabel, label_index, all_polygons, renamed_response>>
    /\ UNCHANGED <<fillVars, zoneVars, geoVars, overlapVars, vecVars, extractVars,
                   morphVars, wandVars, orderVars>>

\* the same request when the segmentation numbers the regions otherwise
ProcessRenamed ==
    /\ bpc = "responded"
    /\ batch_response.status = 200
    /\ renamed_response' =
           process_image([k \in 1..Len(regions) |-> regions[relabel[k]]],
                         DefaultSettings, ExtractWidth * ExtractHeight)
    /\ bpc' = "renamed"
    /\ UNCHANGED <<regions, relabel, label_index, all_polygons, batch_response>>
    /\ UNCHANGED <<fillVars, zoneVars, geoVars, overlapVars, vecVars, extractVars,
                   morphVars, wandVars, orderVars>>

InitBatch ==
    /\ regions \in LabelledRegions
    /\ relabel \in Permutations(1..Len(regions))
    /\ label_index = 1
    /\ all_polygons = <<>>
    /\ batch_response = NoBatchResponse
    /\ renamed_response = NoBatchResponse
    /\ bpc = "loop"

(***************************************************************************)
(* /api/magic-wand: the handler from the decoded image to the answer        *)
(*                                                                          *)
(* The images are Gray with one White rectangle. The selections they give   *)
(* are, after refine_mask, empty or one filled rectangle, whose outer       *)
(* contour under CHAIN_APPROX_SIMPLE is the list of its corner pixels.      *)
(* corners_kept says what cv2.approxPolyDP does with that list under the    *)
(* request's simplify_tolerance: it keeps the four corners, or two of them. *)
(***************************************************************************)
WandWidth == 12
WandHeight == 9

WandImage(white) ==
    [w |-> WandWidth, h |-> WandHeight,
     px |-> [p \in Pos(WandWidth, WandHeight) |-> IF p \in white THEN White ELSE Gray]]

\* white rectangles around the centre pixel: 6x3 and away from the border,
\* 3x3, 2x2, everything but a frame one pixel wide, and the whole image
WandLayouts ==
    LET cx == WandWidth \div 2
        cy == WandHeight \div 2
    IN  {((cx - 3)..(cx + 2)) \X ((cy - 1)..(cy + 1)),
         ((cx - 1)..(cx + 1)) \X ((cy - 1)..(cy + 1)),
         ((cx - 1)..cx) \X ((cy - 1)..cy),
         (1..(WandWidth - 2)) \X (1..(WandHeight - 2)),
         Pos(WandWidth, WandHeight)}

\* the centre, the top-left pixel and a point right of the image
WandClicks == {<<WandWidth \div 2, WandHeight \div 2>>, <<0, 0>>, <<WandWidth, 0>>}

\* earlier selections: one over the centre, one in the top-left corner, one
\* whose left edge lies on the right edge of the 6x3 rectangle's outline
WandExisting ==
    LET cx == WandWidth \div 2
        cy == WandHeight \div 2
        centre == <<Rect(cx - 1, cy - 1, cx + 1, cy + 1)>>
        corner == <<Rect(0, 0, 1, 1)>>
        beside == <<Rect(cx + 2, cy - 1, cx + 4, cy + 1)>>
    IN  {<<>>, <<centre>>, <<corner>>, <<beside>>, <<corner, centre>>}

OcrEngines == {"ai", "tesseract", "none"}

\* what an engine reads: nothing, or a label
EngineTexts == {"", "B12"}

\* magic_wand_select_boundary as a function of its arguments; the breadth-first
\* fill selects the pixels joined to the seed by non-boundary pixels and
\* tracks their bounding box
magic_wand_select_boundary(img, sx, sy, rgb, tol) ==
    IF ~InBounds(img, sx, sy) THEN [raised |-> TRUE, mask |-> {}, bbox |-> ZeroBBox]
    ELSE LET bm == BoundaryMask(img, rgb, tol)
         IN  IF <<sx, sy>> \in bm THEN [raised |-> FALSE, mask |-> {}, bbox |-> ZeroBBox]
             ELSE LET selected == Grow({<<sx, sy>>}, Pos(img.w, img.h) \ bm)
                  IN  IF TooLarge(Cardinality(selected), img.h * img.w)
                          THEN [raised |-> FALSE, mask |-> {},
                                bbox |-> [ZeroBBox EXCEPT !.error = "selection_too_large"]]
                          ELSE [raised |-> FALSE, mask |-> selected,
                                bbox |-> MaskBBox(selected)]

magic_wand_select_tolerance(img, sx, sy, tol) ==
    IF ~InBounds(img, sx, sy) THEN [raised |-> TRUE, mask |-> {}, bbox |-> ZeroBBox]
    ELSE LET m == FloodFillFixedRange(img, sx, sy, tol)
         IN  [raised |-> FALSE, mask |-> m, bbox |-> MaskBBox(m)]

magic_wand_select(img, sx, sy, boundary_mode) ==
    IF boundary_mode
        THEN magic_wand_select_boundary(img, sx, sy, Gray, DefaultBoundaryTolerance)
        ELSE magic_wand_select_tolerance(img, sx, sy, DefaultTolerance)

AsMask(img, on) == [w |-> img.w, h |-> img.h, on |-> on]

\* the pixels are those of one filled rectangle
IsRectangle(S) ==
    /\ S # {}
    /\ S = (SetMin({p[1] : p \in S})..SetMax({p[1] : p \in S}))
               \X (SetMin({p[2] : p \in S})..SetMax({p[2] : p \in S}))

\* the corner pixels of a filled rectangle as cv2.findContours lists them:
\* from the top-left one, down the left side first
RectangleContour(S) ==
    LET x0 == SetMin({p[1] : p \in S})
        x1 == SetMax({p[1] : p \in S})
        y0 == SetMin({p[2] : p \in S})
        y1 == SetMax({p[2] : p \in S})
    IN  IF x0 = x1 /\ y0 = y1 THEN <<<<x0, y0>>>>
        ELSE IF x0 = x1 THEN <<<<x0, y0>>, <<x0, y1>>>>
        ELSE IF y0 = y1 THEN <<<<x0, y0>>, <<x1, y0>>>>
        ELSE <<<<x0, y0>>, <<x0, y1>>, <<x1, y1>>, <<x1, y0>>>>

\* cv2.findContours(mask, RETR_EXTERNAL, CHAIN_APPROX_SIMPLE), each contour
\* with what cv2.approxPolyDP keeps of it
FindContours(m, corners_kept) ==
    IF m.on = {} THEN <<>>
    ELSE LET c == RectangleContour(m.on)
         IN  <<[points |-> c,
                simplified |-> IF corners_kept THEN c ELSE SubSeq(c, 1, Min2(Len(c), 2))]>>

\* image, click and mode of the requests
WandSelections ==
    Stored({q \in [image : {WandImage(l) : l \in WandLayouts}, click : WandClicks,
            use_boundary_mode : BOOLEAN] :
        LET r == magic_wand_select(q.image, q.click[1], q.click[2], q.use_boundary_mode)
            m == refine_mask(AsMask(q.image, r.mask)).on
        IN  m = {} \/ IsRectangle(m)})

\* the log holds <<"stage", s>>, <<"check", engine>> and <<"call", engine, text>>
LogStage(stage) == w_log' = Append(w_log, <<"stage", stage>>)

\* magic_wand_select; a ValueError is answered with success = False
WandSelect ==
    /\ wpc = "request"
    /\ LET r == magic_wand_select(w_request.image, w_request.click_x, w_request.click_y,
                                  w_request.use_boundary_mode)
       IN  IF r.raised
               THEN /\ w_response' = [NoWandResponse EXCEPT
                                          !.status = 200,
                                          !.error = "Seed point out of image bounds"]
                    /\ w_log' = w_log \o << <<"stage", "selection">>, <<"stage", "response">> >>
                    /\ wpc' = "responded"
                    /\ UNCHANGED w_selection
               ELSE /\ w_selection' = [mask |-> r.mask, bbox |-> r.bbox]
                    /\ LogStage("selection")
                    /\ wpc' = "selected"
                    /\ UNCHANGED w_response
    /\ UNCHANGED <<w_request, w_env, w_refined, w_result, w_ocr>>
    /\ UNCHANGED <<fillVars, zoneVars, geoVars, overlapVars, vecVars, extractVars,
                   morphVars, batchVars, orderVars>>

\* if bbox.get("error") == "selection_too_large"
WandTooLarge ==
    /\ wpc = "selected"
    /\ w_selection.bbox.error = "selection_too_large"
    /\ w_response' = [NoWandResponse EXCEPT !.status = 200,
                                            !.error = "Selection too large"]
    /\ LogStage("response")
    /\ wpc' = "responded"
    /\ UNCHANGED <<w_request, w_env, w_selection, w_refined, w_result, w_ocr>>
    /\ UNCHANGED <<fillVars, zoneVars, geoVars, overlapVars, vecVars, extractVars,
                   morphVars, batchVars, orderVars>>

\* refined_mask = refine_mask(mask)
WandRefine ==
    /\ wpc = "selected"
    /\ w_selection.bbox.error # "selection_too_large"
    /\ w_refined' = refine_mask(AsMask(w_request.image, w_selection.mask))
    /\ LogStage("refinement")
    /\ wpc' = "refined"
    /\ UNCHANGED <<w_request, w_env, w_selection, w_result, w_ocr, w_response>>
    /\ UNCHANGED <<fillVars, zoneVars, geoVars, overlapVars, vecVars, extractVars,
                   morphVars, batchVars, orderVars>>

\* result = mask_to_polygon(refined_mask, request.simplify_tolerance)
WandVectorize ==
    /\ wpc = "refined"
    /\ w_result' = mask_to_polygon(FindContours(w_refined, w_request.corners_kept))
    /\ LogStage("vectorization")
    /\ wpc' = "vectorized"
    /\ UNCHANGED <<w_request, w_env, w_selection, w_refined, w_ocr, w_response>>
    /\ UNCHANGED <<fillVars, zoneVars, geoVars, overlapVars, vecVars, extractVars,
                   morphVars, batchVars, orderVars>>

\* variant: a missing polygon is answered as a success
WandNoRegion_Success ==
    /\ wpc = "vectorized"
    /\ w_result = <<>>
    /\ w_response' = [NoWandResponse EXCEPT !.status = 200, !.success = TRUE]
    /\ LogStage("response")
    /\ wpc' = "responded"
    /\ UNCHANGED <<w_request, w_env, w_selection, w_refined, w_result, w_ocr>>
    /\ UNCHANGED <<fillVars, zoneVars, geoVars, overlapVars, vecVars, extractVars,
                   morphVars, batchVars, orderVars>>

\* if result is None
WandNoRegion ==
    /\ wpc = "vectorized"
    /\ w_result = <<>>
    /\ w_response' = [NoWandResponse EXCEPT !.status = 200,
                                            !.error = "No valid region selected"]
    /\ LogStage("response")
    /\ wpc' = "responded"
    /\ UNCHANGED <<w_request, w_env, w_selection, w_refined, w_result, w_ocr>>
    /\ UNCHANGED <<fillVars, zoneVars, geoVars, overlapVars, vecVars, extractVars,
                   morphVars, batchVars, orderVars>>

\* if request.existing_polygons and result["polygon"]: check_overlap
WandOverlap ==
    /\ wpc = "vectorized"
    /\ w_result # <<>>
    /\ LogStage("overlap")
    /\ IF /\ w_request.existing_polygons # <<>>
          /\ w_result[1].polygon # <<>>
          /\ check_overlap(w_result[1].polygon[1], w_request.existing_polygons).value
           THEN /\ w_response' =
                       [NoWandResponse EXCEPT
                            !.status = 200,
                            !.error = "This area overlaps with an existing selection"]
                /\ wpc' = "responded"
           ELSE /\ wpc' = "ocr"
                /\ UNCHANGED w_response
    /\ UNCHANGED <<w_request, w_env, w_selection, w_refined, w_result, w_ocr>>
    /\ UNCHANGED <<fillVars, zoneVars, geoVars, overlapVars, vecVars, extractVars,
                   morphVars, batchVars, orderVars>>

\* extract_text_with_gemini: nothing, or a text with confidence 95.0
GeminiResults == {[text |-> t, confidence |-> IF t = "" THEN 0 ELSE 95] : t \in EngineTexts}

\* extract_text_from_polygon: nothing, or the best text with its confidence
TesseractResults == {[text |-> t, confidence |-> IF t = "" THEN 0 ELSE 80] : t \in EngineTexts}

\* the engine an "and is_..._available()" condition asks for: "gemini",
\* "tesseract", or "none" when the comparison of ocr_engine fails first
PrimaryEngine(engine) ==
    IF engine = "ai" THEN "gemini" ELSE IF engine = "tesseract" THEN "tesseract" ELSE "none"

FallbackEngine(engine) ==
    IF engine = "ai" THEN "tesseract" ELSE IF engine = "tesseract" THEN "gemini" ELSE "none"

\* variant: the engine is called without asking whether it is available
TryEngine_Unchecked(name) ==
    IF name = "none" THEN UNCHANGED <<w_ocr, w_log>>
    ELSE /\ w_ocr' \in (IF name = "gemini" THEN GeminiResults ELSE TesseractResults)
         /\ w_log' = w_log \o << <<"check", name>>, <<"call", name, w_ocr'.text>> >>

\* one if/elif pair of the OCR block for the engine named: the availability
\* check, then the call when the engine is available; the log keeps the check
\* and the call with the text it returned
TryEngine(name) ==
    IF name = "none" THEN UNCHANGED <<w_ocr, w_log>>
    ELSE IF ~w_env[name]
        THEN /\ w_log' = Append(w_log, <<"check", name>>)
             /\ UNCHANGED w_ocr
    ELSE /\ w_ocr' \in (IF name = "gemini" THEN GeminiResults ELSE TesseractResults)
         /\ w_log' = w_log \o << <<"check", name>>, <<"call", name, w_ocr'.text>> >>

\* ocr_text = "", ocr_confidence = 0.0, and the requested engine
WandOcr ==
    /\ wpc = "ocr"
    /\ IF w_selection.bbox.width > 0 /\ w_selection.bbox.height > 0
           THEN /\ TryEngine(PrimaryEngine(w_request.ocr_engine))
                /\ wpc' = "fallback"
           ELSE /\ UNCHANGED <<w_ocr, w_log>>
                /\ wpc' = "ocr_done"
    /\ UNCHANGED <<w_request, w_env, w_selection, w_refined, w_result, w_response>>
    /\ UNCHANGED <<fillVars, zoneVars, geoVars, overlapVars, vecVars, extractVars,
                   morphVars, batchVars, orderVars>>

\* variant: the other engine is tried whatever the first one returned
WandOcrFallback_Always ==
    /\ wpc = "fallback"
    /\ TryEngine(FallbackEngine(w_request.ocr_engine))
    /\ wpc' = "ocr_done"
    /\ UNCHANGED <<w_request, w_env, w_selection, w_refined, w_result, w_response>>
    /\ UNCHANGED <<fillVars, zoneVars, geoVars, overlapVars, vecVars, extractVars,
                   morphVars, batchVars, orderVars>>

\* if not ocr_text: the other engine
WandOcrFallback ==
    /\ wpc = "fallback"
    /\ IF w_ocr.text = ""
           THEN TryEngine(FallbackEngine(w_request.ocr_engine))
           ELSE UNCHANGED <<w_ocr, w_log>>
    /\ wpc' = "ocr_done"
    /\ UNCHANGED <<w_request, w_env, w_selection, w_refined, w_result, w_response>>
    /\ UNCHANGED <<fillVars, zoneVars, geoVars, overlapVars, vecVars, extractVars,
                   morphVars, batchVars, orderVars>>

\* return MagicWandResponse(success=True, ...)
WandRespond ==
    /\ wpc = "ocr_done"
    /\ w_response' = [status |-> 200, success |-> TRUE,
                      polygon |-> w_result[1].polygon,
                      centroid |-> w_result[1].centroid,
                      bbox |-> <<w_selection.bbox>>,
                      ocr_text |-> w_ocr.text,
                      ocr_confidence |-> w_ocr.confidence,
                      area |-> w_result[1].area,
                      error |-> "none"]
    /\ LogStage("response")
    /\ wpc' = "responded"
    /\ UNCHANGED <<w_request, w_env, w_selection, w_refined, w_result, w_ocr>>
    /\ UNCHANGED <<fillVars, zoneVars, geoVars, overlapVars, vecVars, extractVars,
                   morphVars, batchVars, orderVars>>

InitWand ==
    /\ \E q \in WandSelections :
           w_request \in [image : {q.image}, click_x : {q.click[1]}, click_y : {q.click[2]},
                          use_boundary_mode : {q.use_boundary_mode},
                          corners_kept : BOOLEAN, ocr_engine : OcrEngines,
                          existing_polygons : WandExisting]
    /\ w_env \in [gemini : BOOLEAN, tesseract : BOOLEAN]
    /\ w_selection = NoReturn
    /\ w_refined = NoMask
    /\ w_result = <<>>
    /\ w_ocr = NoOcr
    /\ w_log = <<>>
    /\ w_response = NoWandResponse
    /\ wpc = "request"

(***************************************************************************)
(* SpecApi: one request to /api/process or one to /api/magic-wand           *)
(***************************************************************************)
InitApi ==
    /\ IdleFill
    /\ IdleZone
    /\ IdleGeo
    /\ IdleOverlap
    /\ IdleVec
    /\ IdleExtract
    /\ IdleMorph
    /\ IdleOrder
    /\ \/ InitBatch /\ IdleWand
       \/ InitWand /\ IdleBatch

NextApi ==
    \/ ProcessLabel
    \/ BatchRespond
    \/ ProcessRenamed
    \/ WandSelect
    \/ WandTooLarge
    \/ WandRefine
    \/ WandVectorize
    \/ WandNoRegion
    \/ WandOverlap
    \/ WandOcr
    \/ WandOcrFallback
    \/ WandRespond

SpecApi == InitApi /\ [][NextApi]_vars

(***************************************************************************)
(* Properties of the two endpoints                                          *)
(***************************************************************************)
\* the labels whose contour still has three vertices after the simplification
ProperLabels ==
    {k \in 1..Len(regions) : regions[k] # <<>> /\ Len(regions[k][1].simplified) >= 3}

\* the labels whose contour has fewer
DroppedLabels ==
    {k \in 1..Len(regions) : regions[k] # <<>> /\ Len(regions[k][1].simplified) < 3}

\* the request got as far as mask_to_polygon
Vectorized == \E i \in 1..Len(w_log) : w_log[i] = <<"stage", "vectorization">>

\* (width - 1) * (height - 1) of the refined mask: the area of its outer contour
RefinedContourArea ==
    (MaskBBox(w_refined.on).width - 1) * (MaskBBox(w_refined.on).height - 1)

\* no contour, a contour area below the minimum, or fewer than 3 points left
NoPolygonCase ==
    \/ w_refined.on = {}
    \/ RefinedContourArea < MinWandArea
    \/ ~w_request.corners_kept

\* C22: in batch extraction a region whose contour has fewer than 3 vertices
\* after simplification is left out and the request succeeds with the
\* features of all other regions; at the magic-wand endpoint a mask that
\* yields no polygon (no contour, area below the minimum, fewer than 3
\* simplified points) is answered with success = false, an error message, no
\* polygon and no centroid.
C22_InvalidRegionsDropped ==
    /\ bpc \in {"responded", "renamed"} =>
           /\ batch_response.status = 200
           /\ Len(batch_response.features) = Cardinality(ProperLabels)
           /\ {batch_response.features[i].geometry.coordinates[1] :
                   i \in 1..Len(batch_response.features)}
                  = {CloseCoords(regions[k][1].simplified) : k \in ProperLabels}
    /\ (wpc = "responded" /\ Vectorized) =>
           /\ NoPolygonCase <=> w_result = <<>>
           /\ w_result = <<>> =>
                  /\ w_response.status = 200
                  /\ ~w_response.success
                  /\ w_response.error \notin {"none", ""}
                  /\ w_response.polygon = <<>>
                  /\ w_response.centroid = <<>>

\* a batch answer with two features, for a segmentation of which one region
\* was dropped
C22_Witness ==
    /\ bpc = "responded"
    /\ DroppedLabels # {}
    /\ batch_response.status = 200
    /\ Len(batch_response.features) = 2

\* C26: zone ids do not depend on the label ids: the answer for the same
\* regions under renamed labels is the same feature sequence, also when two
\* polygons have equal sort-key centroids.
C26_LabelIdsIrrelevant ==
    bpc = "renamed" => renamed_response = batch_response

WandClick == <<w_request.click_x, w_request.click_y>>

ClickInBounds ==
    /\ 0 <= w_request.click_x /\ w_request.click_x < w_request.image.w
    /\ 0 <= w_request.click_y /\ w_request.click_y < w_request.image.h

\* the clicked pixel has the boundary colour
ClickOnBoundary ==
    /\ w_request.use_boundary_mode
    /\ ClickInBounds
    /\ w_request.image.px[WandClick] = Gray

\* the pixels joined to the click by pixels that do not have the boundary colour
WandComponent ==
    Reach4({WandClick},
           {p \in Pos(w_request.image.w, w_request.image.h) : w_request.image.px[p] # Gray})

\* boundary mode selects more than 80% of the image
RatioTooLarge ==
    /\ w_request.use_boundary_mode
    /\ ClickInBounds
    /\ ~ClickOnBoundary
    /\ 5 * Cardinality(WandComponent) > 4 * w_request.image.w * w_request.image.h

\* the candidate polygon and an existing polygon have area in common
CandidateOverlaps ==
    /\ w_result # <<>>
    /\ \E k \in 1..Len(w_request.existing_polygons) :
           SharesArea(w_result[1].polygon[1], w_request.existing_polygons[k][1])

\* a success = false answer without polygon and with the error given
Rejected(error) ==
    /\ w_response.status = 200
    /\ ~w_response.success
    /\ w_response.polygon = <<>>
    /\ w_response.error = error

EngineCalls == SelectSeq(w_log, LAMBDA e : e[1] = "call")

\* what check_overlap decides for the candidate: an existing polygon with a
\* point in common
CandidateMeetsExisting ==
    \E k \in 1..Len(w_request.existing_polygons) :
        Meets(w_result[1].polygon[1], w_request.existing_polygons[k][1])

\* the selection passed the too-large, the no-region and the overlap check
SelectionAccepted ==
    /\ w_selection.bbox.error = "none"
    /\ w_result # <<>>
    /\ ~CandidateMeetsExisting

\* no engine can be used: the selector names none, or neither is available
NoEngineUsable ==
    \/ w_request.ocr_engine \notin {"ai", "tesseract"}
    \/ ~w_env.gemini /\ ~w_env.tesseract

\* C24: when no OCR engine can be used (the engine asked for and the other
\* one are unavailable, or the selector names neither "ai" nor "tesseract"),
\* an accepted selection is answered with success = true, its polygon,
\* centroid, bbox and area, ocr_text = "" and ocr_confidence = 0.0.
C24_OcrUnavailableNonFatal ==
    (wpc = "responded" /\ Vectorized /\ SelectionAccepted /\ NoEngineUsable) =>
        /\ w_response.status = 200
        /\ w_response.success
        /\ w_response.error = "none"
        /\ w_response.polygon = w_result[1].polygon
        /\ w_response.centroid = w_result[1].centroid
        /\ w_response.bbox = <<w_selection.bbox>>
        /\ w_response.area = w_result[1].area
        /\ w_response.ocr_text = ""
        /\ w_response.ocr_confidence = 0
        /\ EngineCalls = <<>>

\* "ai" was asked for, both availability checks were made and failed, and the
\* request succeeded
C24_Witness ==
    /\ wpc = "responded"
    /\ w_response.success
    /\ w_request.ocr_engine = "ai"
    /\ ~w_env.gemini /\ ~w_env.tesseract
    /\ \E i, j \in 1..Len(w_log) :
           i < j /\ w_log[i] = <<"check", "gemini">> /\ w_log[j] = <<"check", "tesseract">>
    /\ w_response.ocr_text = ""
    /\ w_response.polygon # <<>>

\* position of a log entry in the order of the stages
StageRank(e) ==
    IF e[1] # "stage" THEN 5
    ELSE CASE e[2] = "selection" -> 1
           [] e[2] = "refinement" -> 2
           [] e[2] = "vectorization" -> 3
           [] e[2] = "overlap" -> 4
           [] e[2] = "response" -> 6

\* C27: the stages of a request run in the order selection, mask refinement,
\* vectorization, overlap check, OCR, response. An engine is called only
\* after the selection passed the too-large, no-region and overlap checks,
\* only for a bbox of positive width and height, and only right after its
\* availability check returned true; the second engine is tried only when
\* no call before it returned a text, so at most two calls are made, and
\* none in a request that ends with success = false.
C27_StagesInOrder ==
    /\ \A i, j \in 1..Len(w_log) :
           i < j => /\ StageRank(w_log[i]) <= StageRank(w_log[j])
                    /\ StageRank(w_log[i]) = StageRank(w_log[j]) => StageRank(w_log[i]) = 5
    /\ \A j \in 1..Len(w_log) :
           \A r \in 1..4 :
               (StageRank(w_log[j]) > r /\ StageRank(w_log[j]) < 6) =>
                   \E i \in 1..(j - 1) : StageRank(w_log[i]) = r
    /\ \A j \in 1..Len(w_log) :
           w_log[j][1] = "call" =>
               /\ SelectionAccepted
               /\ w_selection.bbox.width > 0 /\ w_selection.bbox.height > 0
               /\ j > 1 /\ w_log[j - 1] = <<"check", w_log[j][2]>>
               /\ w_env[w_log[j][2]]
               /\ \A i \in 1..(j - 1) :
                      w_log[i][1] = "call" =>
                          w_log[i][3] = "" /\ w_log[i][2] # w_log[j][2]
    /\ Len(EngineCalls) <= 2
    /\ (wpc = "responded" /\ ~w_response.success) => EngineCalls = <<>>
    /\ (wpc = "responded" /\ w_response.success) =>
           \A r \in 1..4 : \E i \in 1..Len(w_log) : StageRank(w_log[i]) = r

\* tesseract was asked for and read nothing, then the AI engine read a label
C27_Witness ==
    /\ wpc = "responded"
    /\ w_response.success
    /\ EngineCalls = << <<"call", "tesseract", "">>, <<"call", "gemini", "B12">> >>
    /\ w_response.ocr_text = "B12"

\* C29: in a success answer the bbox encloses the polygon: every vertex
\* (vx, vy) has bbox.x <= vx <= bbox.x + bbox.width - 1 and
\* bbox.y <= vy <= bbox.y + bbox.height - 1.
C29_BBoxEnclosesPolygon ==
    (wpc = "responded" /\ w_response.success) =>
        LET ring == w_response.polygon[1]
            bbox == w_response.bbox[1]
        IN  \A k \in 1..Len(ring) :
                /\ bbox.x <= ring[k][1] /\ ring[k][1] <= bbox.x + bbox.width - 1
                /\ bbox.y <= ring[k][2] /\ ring[k][2] <= bbox.y + bbox.height - 1

(***************************************************************************)
(* Metadata of the extraction answer                                        *)
(***************************************************************************)
\* the vertices of the answer are those of the request
InPixelSpace == geo_response.features = geo_features

\* the vertices of the answer are the images of those of the request under
\* the mapping of the bounding box, or under a homography that maps the
\* control points
GeographicVertices ==
    /\ geo_response.features = geo_result
    /\ \/ bounding_box # <<>> /\ AllBoxImages(bounding_box[1])
       \/ /\ bounding_box = <<>>
          /\ control_points # <<>>
          /\ \E M \in Homographies : MapsControlPoints(M) /\ AllProjectiveImages(M)

\* C28: the metadata of an extraction answer agrees with its coordinates:
\* georeferenced = true and coordinate_system = "EPSG:4326" exactly when the
\* vertices were transformed to geographic coordinates, georeferenced = false
\* and coordinate_system = "pixel" exactly when they are returned in pixel
\* space, also for a request with 1 to 3 control points and no bounding box.
C28_MetadataMatchesCoordinates ==
    gpc = "responded" =>
        /\ (geo_response.georeferenced /\ geo_response.coordinate_system = "EPSG:4326")
               <=> GeographicVertices
        /\ (~geo_response.georeferenced /\ geo_response.coordinate_system = "pixel")
               <=> (~GeographicVertices /\ InPixelSpace)

(***************************************************************************)
(* SpecFill: boundary-mode calls only, run to the end                       *)
(*                                                                          *)
(* The call is one thread of control: a step that can be taken is taken.    *)
(***************************************************************************)
InitFill ==
    /\ Init
    /\ use_boundary_mode

NextFill ==
    \/ SelectBoundary_OutOfBounds
    \/ SelectBoundary_SeedOnBoundary
    \/ SelectBoundary_StartFill
    \/ FillStep
    \/ SelectBoundary_TooLarge
    \/ SelectBoundary_Return
    \/ Respond_ValueError
    \/ Respond_TooLarge

SpecFill == InitFill /\ [][NextFill]_vars /\ WF_vars(NextFill)

(***************************************************************************)
(* Properties of the breadth-first fill                                     *)
(***************************************************************************)
QueuedPixels == {queue[i] : i \in 1..Len(queue)}

\* what holds between two passes of the while loop
FillLoopInvariant ==
    /\ \A i \in 1..Len(queue) :
           /\ 0 <= queue[i][1] /\ queue[i][1] < image.w
           /\ 0 <= queue[i][2] /\ queue[i][2] < image.h
           /\ queue[i] \in visited
           /\ ~ClassifiedBoundary(queue[i])
    /\ \A i, j \in 1..Len(queue) : queue[i] = queue[j] => i = j
    /\ QueuedPixels \cap result_mask = {}
    /\ result_mask \subseteq visited
    /\ Cardinality(result_mask) <= image.w * image.h

\* what one pass of the while loop does: it selects a pixel that was not
\* selected before, so the selected pixels count the dequeues; it marks and
\* enqueues only pixels that were not visited, each once
FillPassOnce ==
    (pc = "fill" /\ pc' = "fill") =>
        /\ Head(queue) \notin result_mask
        /\ result_mask' = result_mask \cup {Head(queue)}
        /\ visited \subseteq visited'
        /\ Len(queue') >= Len(queue) - 1
        /\ SubSeq(queue', 1, Len(queue) - 1) = Tail(queue)
        /\ \A i \in Len(queue)..Len(queue') :
               /\ queue'[i] \notin visited
               /\ queue'[i] \in visited'
               /\ \A j \in Len(queue)..Len(queue') : queue'[i] = queue'[j] => i = j

\* C30: the boundary-mode breadth-first fill terminates for every image and
\* in-bounds seed: a pixel is marked visited at most once and enqueued at
\* most once, every queued pixel is in-bounds, visited and non-boundary, the
\* selected pixels are a subset of the visited ones, and the number of
\* dequeues never exceeds width * height.
C30_FillTerminates ==
    /\ [](pc = "fill" => FillLoopInvariant)
    /\ [][FillPassOnce]_vars
    /\ (pc = "fill" ~> pc = "returned")

\* a fill of a whole image of MaxPixels pixels, at its last dequeue
C30_Witness ==
    /\ pc = "fill"
    /\ Len(queue) = 1
    /\ Cardinality(result_mask) = image.w * image.h - 1
    /\ image.w * image.h = MaxPixels

(***************************************************************************)
(* SpecOrder: the fill loop of magic_wand_select_boundary with the order of *)
(* the work left open                                                       *)
(*                                                                          *)
(* A worker takes any pixel of the queue, selects it, and examines its 4    *)
(* neighbours in any order; the test and the setting of visited[ny, nx] are *)
(* one step. Two workers share queue, visited, result_mask and the bounding *)
(* box. The function returns when the queue is empty and no worker holds a  *)
(* pixel.                                                                   *)
(***************************************************************************)
MaxOrderPixels == 5

RemoveAt(q, i) == SubSeq(q, 1, i - 1) \o SubSeq(q, i + 1, Len(q))

\* x, y = queue.pop...(), result_mask[y, x] = 255, the bounding box
OrderTake ==
    /\ pc = "fill"
    /\ \E w \in Workers : \E i \in 1..Len(queue) :
           /\ ~hands[w].busy
           /\ queue' = RemoveAt(queue, i)
           /\ result_mask' = result_mask \cup {queue[i]}
           /\ min_x' = Min2(min_x, queue[i][1])
           /\ max_x' = Max2(max_x, queue[i][1])
           /\ min_y' = Min2(min_y, queue[i][2])
           /\ max_y' = Max2(max_y, queue[i][2])
           /\ hands' = [hands EXCEPT ![w] = [busy |-> TRUE, pixel |-> queue[i],
                                             todo |-> 1..Len(NeighbourOffsets)]]
    /\ UNCHANGED <<image, seed_x, seed_y, use_boundary_mode, boundary_color,
                   boundary_tolerance, tolerance, pc, allocated, boundary_mask,
                   visited, ret, exception, response>>
    /\ UNCHANGED <<zoneVars, geoVars, overlapVars, vecVars, extractVars, morphVars,
                   batchVars, wandVars>>

\* the body of the for loop for one neighbour of the pixel a worker holds
OrderExamine ==
    /\ pc = "fill"
    /\ \E w \in Workers : \E k \in hands[w].todo :
           LET nx == hands[w].pixel[1] + NeighbourOffsets[k][1]
               ny == hands[w].pixel[2] + NeighbourOffsets[k][2]
               left == hands[w].todo \ {k}
           IN  /\ IF ~InBounds(image, nx, ny) \/ <<nx, ny>> \in visited
                      THEN UNCHANGED <<visited, queue>>
                      ELSE /\ visited' = visited \cup {<<nx, ny>>}
                           /\ queue' = IF <<nx, ny>> \in boundary_mask
                                           THEN queue
                                           ELSE Append(queue, <<nx, ny>>)
               /\ hands' = [hands EXCEPT ![w] = IF left = {} THEN FreeHand
                                                ELSE [@ EXCEPT !.todo = left]]
    /\ UNCHANGED <<image, seed_x, seed_y, use_boundary_mode, boundary_color,
                   boundary_tolerance, tolerance, pc, allocated, boundary_mask,
                   result_mask, min_x, max_x, min_y, max_y, ret, exception, response>>
    /\ UNCHANGED <<zoneVars, geoVars, overlapVars, vecVars, extractVars, morphVars,
                   batchVars, wandVars>>

\* variant: the function returns as soon as the queue is empty
OrderReturn_NoJoin ==
    /\ pc = "fill"
    /\ queue = <<>>
    /\ ret' = IF TooLarge(Cardinality(result_mask), image.h * image.w)
                  THEN [mask |-> {},
                        bbox |-> [ZeroBBox EXCEPT !.error = "selection_too_large"]]
                  ELSE [mask |-> result_mask,
                        bbox |-> FinalBBox(min_x, max_x, min_y, max_y)]
    /\ pc' = "returned"
    /\ UNCHANGED <<image, seed_x, seed_y, use_boundary_mode, boundary_color,
                   boundary_tolerance, tolerance, allocated, boundary_mask,
                   result_mask, visited, queue, min_x, max_x, min_y, max_y,
                   exception, response, hands>>
    /\ UNCHANGED <<zoneVars, geoVars, overlapVars, vecVars, extractVars, morphVars,
                   batchVars, wandVars>>

\* the end of the loop, the too-large check and the bounding box
OrderReturn ==
    /\ pc = "fill"
    /\ queue = <<>>
    /\ \A w \in Workers : ~hands[w].busy
    /\ ret' = IF TooLarge(Cardinality(result_mask), image.h * image.w)
                  THEN [mask |-> {},
                        bbox |-> [ZeroBBox EXCEPT !.error = "selection_too_large"]]
                  ELSE [mask |-> result_mask,
                        bbox |-> FinalBBox(min_x, max_x, min_y, max_y)]
    /\ pc' = "returned"
    /\ UNCHANGED <<image, seed_x, seed_y, use_boundary_mode, boundary_color,
                   boundary_tolerance, tolerance, allocated, boundary_mask,
                   result_mask, visited, queue, min_x, max_x, min_y, max_y,
                   exception, response, hands>>
    /\ UNCHANGED <<zoneVars, geoVars, overlapVars, vecVars, extractVars, morphVars,
                   batchVars, wandVars>>

\* boundary-mode calls with the seed inside the image and off the boundary
InitOrder ==
    /\ InitCall
    /\ \E d \in {e \in Dims : e[1] * e[2] <= MaxOrderPixels} :
           \E px \in [Pos(d[1], d[2]) -> Palette] :
               image = [w |-> d[1], h |-> d[2], px |-> px]
    /\ seed_x \in 0..(image.w - 1)
    /\ seed_y \in 0..(image.h - 1)
    /\ boundary_color = Gray
    /\ use_boundary_mode = TRUE
    /\ boundary_tolerance = DefaultBoundaryTolerance
    /\ tolerance = DefaultTolerance
    /\ <<seed_x, seed_y>> \notin BoundaryMask(image, boundary_color, boundary_tolerance)
    /\ IdleZone
    /\ IdleGeo
    /\ IdleLater

NextOrder ==
    \/ SelectBoundary_StartFill
    \/ OrderTake
    \/ OrderExamine
    \/ OrderReturn

SpecOrder == InitOrder /\ [][NextOrder]_vars

(***************************************************************************)
(* Properties of the fill in any order                                      *)
(***************************************************************************)
\* the while loop run first in, first out from the state given
RECURSIVE FifoFill(_, _, _)
FifoFill(vis, q, selected) ==
    IF q = <<>> THEN selected
    ELSE LET scan == ScanNeighbours(1, Head(q)[1], Head(q)[2], vis, Tail(q))
         IN  FifoFill(scan.visited, scan.queue, selected \cup {Head(q)})

\* what the sequential fill returns for the image and the seed
SequentialReturn ==
    LET selected == FifoFill({Seed}, <<Seed>>, {})
    IN  IF 5 * Cardinality(selected) > 4 * image.w * image.h
            THEN [mask |-> {}, bbox |-> [x |-> 0, y |-> 0, width |-> 0, height |-> 0,
                                         error |-> "selection_too_large"]]
            ELSE [mask |-> selected,
                  bbox |-> [x |-> SetMin(Cols(selected)), y |-> SetMin(Rows(selected)),
                            width |-> SetMax(Cols(selected)) - SetMin(Cols(selected)) + 1,
                            height |-> SetMax(Rows(selected)) - SetMin(Rows(selected)) + 1,
                            error |-> "none"]]

\* C25: the mask and the bounding box of the boundary-mode fill do not
\* depend on the order of the work: whatever pixel is taken from the
\* frontier next, in whatever order its 4 neighbours are examined, and
\* however two workers interleave, the selected pixels and the bbox at the
\* end are those of the sequential first-in first-out fill.
C25_OrderIndependent ==
    pc = "returned" =>
        /\ result_mask = SeedComponent
        /\ result_mask = FifoFill({Seed}, <<Seed>>, {})
        /\ ret = SequentialReturn

\* the fill in open order returned the three free pixels of a 2x2 image
\* that has one boundary pixel
C25_Witness ==
    /\ pc = "returned"
    /\ image.w = 2 /\ image.h = 2
    /\ Cardinality(ret.mask) = 3
    /\ ret.bbox.width = 2 /\ ret.bbox.height = 2

====
